---- MODULE Spec2Model ----
(***************************************************************************)
(* Model of oci_compute/OCI_instance_snapshots.py: the snapshot manager    *)
(* for compute instances.  One script invocation is a process that walks   *)
(* through the cloud API calls of its operation; the bucket                *)
(* "compute_snapshots" (records <instance_ocid>.json and lock objects      *)
(* lock.<instance_ocid>), the compute instances, the volumes and the       *)
(* volume groups are the shared state.                                     *)
(***************************************************************************)
EXTENDS Integers, Sequences, FiniteSets, TLC

\* ------------------------------------------------------------------ bounds
MaxOps    == 3    \* script invocations in one behaviour
MaxFaults == 1    \* cloud API calls that fail in one behaviour
MaxUnlockFaults == 1   \* further delete calls of unlock() that fail

Procs == {"p1", "p2"}
Names == {"snap_a", "snap_b"}

VARIABLES
    objects,   \* bucket: instance id -> text of object <instance id>.json
    locks,     \* bucket: instance ids i for which object lock.<i> exists
    inst,      \* compute instances, indexed by instance id
    vols,      \* boot and block volumes, indexed by volume id
    vgs,       \* existing volume groups
    pc,        \* per process: position in the script
    op,        \* per process: the parsed command line
    loc,       \* per process: local variables of the running functions
    code,      \* per process: exit code of the last invocation
    nops,      \* number of invocations started (also the UTC clock)
    nfail,     \* number of failed API calls so far
    par,       \* TRUE when invocations may overlap in time
    pre        \* bucket and cloud state when the running invocation started

vars == <<objects, locks, inst, vols, vgs, pc, op, loc, code, nops, nfail, par, pre>>

\* ------------------------------------------------------------ small helpers
Range(s) == {s[x] : x \in DOMAIN s}

Put(f, key, val) == (key :> val) @@ f

Del(f, key) == [x \in DOMAIN f \ {key} |-> f[x]]

\* outcomes an API call can have: it fails only while failures are left
Outcomes == IF nfail < MaxFaults THEN {TRUE, FALSE} ELSE {TRUE}

\* the sets of calls, among the calls S of one step, that may fail together
FailSets(S) == {F \in SUBSET S : F = {} \/ Cardinality(F) <= MaxFaults - nfail}

\* the delete calls of unlock() that may fail: MaxUnlockFaults more of them
UnlockFailSets(S) ==
    {F \in SUBSET S : F = {} \/ Cardinality(F) <= MaxFaults + MaxUnlockFaults - nfail}

\* ------------------------------------------------------- JSON (json module)
\* A text is a sequence of tokens; json.dumps(dict, indent=4) writes the
\* keys of each dictionary in insertion order.
TBeg  == [k |-> "{"]
TEnd  == [k |-> "}"]
LBeg  == [k |-> "["]
LEnd  == [k |-> "]"]
Key(s) == [k |-> "key", s |-> s]
Val(v) == [k |-> "val", v |-> v]

DumpsBlkvol(b) ==
    << TBeg, Key("name"), Val(b.name), Key("cloned_id"), Val(b.cloned_id),
       Key("device"), Val(b.device), Key("attachment_type"), Val(b.attachment_type),
       Key("display_name"), Val(b.display_name), Key("is_read_only"), Val(b.is_read_only),
       Key("is_shareable"), Val(b.is_shareable), TEnd >>

RECURSIVE DumpsBlkvols(_)
DumpsBlkvols(s) ==
    IF s = <<>> THEN <<>> ELSE DumpsBlkvol(Head(s)) \o DumpsBlkvols(Tail(s))

DumpsSnap(s) ==
    << TBeg, Key("name"), Val(s.name), Key("description"), Val(s.description),
       Key("date_time"), Val(s.date_time),
       Key("boot_volume"), TBeg, Key("name"), Val(s.boot_volume.name),
                                 Key("cloned_id"), Val(s.boot_volume.cloned_id), TEnd,
       Key("block_volumes"), LBeg >> \o DumpsBlkvols(s.block_volumes) \o << LEnd, TEnd >>

RECURSIVE DumpsSnaps(_)
DumpsSnaps(s) ==
    IF s = <<>> THEN <<>> ELSE DumpsSnap(Head(s)) \o DumpsSnaps(Tail(s))

Dumps(d) ==
    << TBeg, Key("instance_id"), Val(d.instance_id), Key("snapshots"), LBeg >>
       \o DumpsSnaps(d.snapshots) \o << LEnd, TEnd >>

\* json.loads: the parsers return [ok, val, pos]; pos is the next token
Bad == [ok |-> FALSE, val |-> <<>>, pos |-> 0]

IsTok(t, pos, kind) == pos \in DOMAIN t /\ t[pos].k = kind

IsKey(t, pos, s) == IsTok(t, pos, "key") /\ t[pos].s = s

\* the member "key": value at pos, pos+1
Member(t, pos, s) == IsKey(t, pos, s) /\ IsTok(t, pos + 1, "val")

LoadsBlkvol(t, pos) ==
    IF /\ IsTok(t, pos, "{")
       /\ Member(t, pos + 1, "name")           /\ Member(t, pos + 3, "cloned_id")
       /\ Member(t, pos + 5, "device")         /\ Member(t, pos + 7, "attachment_type")
       /\ Member(t, pos + 9, "display_name")   /\ Member(t, pos + 11, "is_read_only")
       /\ Member(t, pos + 13, "is_shareable")  /\ IsTok(t, pos + 15, "}")
    THEN [ok |-> TRUE, pos |-> pos + 16,
          val |-> [name |-> t[pos + 2].v, cloned_id |-> t[pos + 4].v,
                   device |-> t[pos + 6].v, attachment_type |-> t[pos + 8].v,
                   display_name |-> t[pos + 10].v, is_read_only |-> t[pos + 12].v,
                   is_shareable |-> t[pos + 14].v]]
    ELSE Bad

\* a parsed list element b followed by the parsed rest r of the list
Cons(b, r) ==
    IF b.ok /\ r.ok THEN [ok |-> TRUE, val |-> <<b.val>> \o r.val, pos |-> r.pos] ELSE Bad

RECURSIVE LoadsBlkvols(_, _)
LoadsBlkvolsFrom(t, b) ==
    IF b.ok THEN Cons(b, LoadsBlkvols(t, b.pos)) ELSE Bad

LoadsBlkvols(t, pos) ==
    IF IsTok(t, pos, "]") THEN [ok |-> TRUE, val |-> <<>>, pos |-> pos + 1]
    ELSE LoadsBlkvolsFrom(t, LoadsBlkvol(t, pos))

\* the snapshot entry that starts at pos and whose block volumes list is r
LoadsSnapWith(t, pos, r) ==
    IF r.ok /\ IsTok(t, r.pos, "}")
    THEN [ok |-> TRUE, pos |-> r.pos + 1,
          val |-> [name |-> t[pos + 2].v, description |-> t[pos + 4].v,
                   date_time |-> t[pos + 6].v,
                   boot_volume |-> [name |-> t[pos + 10].v, cloned_id |-> t[pos + 12].v],
                   block_volumes |-> r.val]]
    ELSE Bad

LoadsSnap(t, pos) ==
    IF /\ IsTok(t, pos, "{")
       /\ Member(t, pos + 1, "name")       /\ Member(t, pos + 3, "description")
       /\ Member(t, pos + 5, "date_time")  /\ IsKey(t, pos + 7, "boot_volume")
       /\ IsTok(t, pos + 8, "{")
       /\ Member(t, pos + 9, "name")       /\ Member(t, pos + 11, "cloned_id")
       /\ IsTok(t, pos + 13, "}")
       /\ IsKey(t, pos + 14, "block_volumes") /\ IsTok(t, pos + 15, "[")
    THEN LoadsSnapWith(t, pos, LoadsBlkvols(t, pos + 16))
    ELSE Bad

RECURSIVE LoadsSnaps(_, _)
LoadsSnapsFrom(t, s) ==
    IF s.ok THEN Cons(s, LoadsSnaps(t, s.pos)) ELSE Bad

LoadsSnaps(t, pos) ==
    IF IsTok(t, pos, "]") THEN [ok |-> TRUE, val |-> <<>>, pos |-> pos + 1]
    ELSE LoadsSnapsFrom(t, LoadsSnap(t, pos))

\* the dictionary whose snapshots list is r
LoadsWith(t, r) ==
    IF r.ok /\ IsTok(t, r.pos, "}") /\ r.pos = Len(t)
    THEN [ok |-> TRUE, pos |-> r.pos + 1,
          val |-> [instance_id |-> t[3].v, snapshots |-> r.val]]
    ELSE Bad

Loads(t) ==
    IF /\ IsTok(t, 1, "{") /\ Member(t, 2, "instance_id")
       /\ IsKey(t, 4, "snapshots") /\ IsTok(t, 5, "[")
    THEN LoadsWith(t, LoadsSnaps(t, 6))
    ELSE Bad

\* ---------------------------------------------------------- snapshot store
empty_dict(instance_id) == [instance_id |-> instance_id, snapshots |-> <<>>]

\* load_snapshots_dict: the dictionary returned when get_object succeeds
\* (ok) or raises; a missing object and a text that does not parse raise too
loaded_or_empty(r, instance_id) == IF r.ok THEN r.val ELSE empty_dict(instance_id)

load_snapshots_dict(objs, instance_id, ok) ==
    IF ok /\ instance_id \in DOMAIN objs
    THEN loaded_or_empty(Loads(objs[instance_id]), instance_id)
    ELSE empty_dict(instance_id)

\* a save that puts the object whatever the list holds
save_puts_always(dict) == Len(dict.snapshots) >= 0

\* save_snapshots_dict puts the object when the list is not empty, and
\* deletes it otherwise
save_puts(dict) == Len(dict.snapshots) > 0

\* the bucket after save_snapshots_dict whose API call succeeds (ok) or raises
save_snapshots_dict(objs, dict, instance_id, ok) ==
    IF save_puts(dict)
    THEN IF ok THEN Put(objs, instance_id, Dumps(dict)) ELSE objs
    ELSE IF ok THEN Del(objs, instance_id) ELSE objs

\* the bucket after delete_snapshots_dict
delete_snapshots_dict(objs, instance_id, ok) ==
    IF ok THEN Del(objs, instance_id) ELSE objs

\* index of the first snapshot of the dictionary with that name, 0 if none
snap_index(dict, snapshot_name) ==
    LET S == {x \in DOMAIN dict.snapshots : dict.snapshots[x].name = snapshot_name}
    IN  IF S = {} THEN 0 ELSE CHOOSE x \in S : \A y \in S : x <= y

\* the dictionary without its first snapshot of that name
remove_snap(dict, snapshot_name) ==
    LET x == snap_index(dict, snapshot_name) IN
    IF x = 0 THEN dict
    ELSE [dict EXCEPT !.snapshots =
             SubSeq(dict.snapshots, 1, x - 1) \o
             SubSeq(dict.snapshots, x + 1, Len(dict.snapshots))]

\* ------------------------------------------------------------------- lock
\* a lock test that stops on any lock object of the listing
lock_present_any(listing, instance_ids) ==
    \E object \in listing : \E instance_id \in Range(instance_ids) : TRUE

\* lock(): a listed lock object is the lock of one of the instances
lock_present(listing, instance_ids) ==
    \E object \in listing : \E instance_id \in Range(instance_ids) : object = instance_id

\* unlock(): the lock objects left when the delete_object calls of the
\* instances in failed raise (the exception is swallowed)
unlock(lks, instance_ids, failed) == lks \ (Range(instance_ids) \ failed)

\* ------------------------------------------------------------ initial state
TagKeys == Names \cup {"owner"}

NoTag == [n \in TagKeys |-> 0]

Attachment(volume_id, state) ==
    [volume_id |-> volume_id, lifecycle_state |-> state, device |-> "/dev/oracleoci/oraclevdb",
     attachment_type |-> "paravirtualized", display_name |-> "att",
     is_read_only |-> FALSE, is_shareable |-> FALSE]

Volume(kind, name, src) ==
    [kind |-> kind, exists |-> TRUE, display_name |-> name, tags |-> NoTag, src |-> src]

\* instance 1 has a boot volume and an attached block volume, instance 2 a
\* boot volume and a block volume whose attachment is DETACHED
InitInst ==
    << [state |-> "RUNNING", tags |-> [NoTag EXCEPT !["owner"] = 1], public_ip |-> "NONE",
        ad |-> "AD-1", boot |-> 1, atts |-> << Attachment(2, "ATTACHED") >>],
       [state |-> "RUNNING", tags |-> NoTag, public_ip |-> "RESERVED",
        ad |-> "AD-1", boot |-> 3, atts |-> << Attachment(4, "DETACHED") >>] >>

InitVols ==
    << Volume("boot", <<"boot1">>, 0), Volume("block", <<"data1">>, 0),
       Volume("boot", <<"boot2">>, 0), Volume("block", <<"data2">>, 0) >>

NoOp == [type |-> "none", ids |-> <<>>, name |-> "", name2 |-> "", desc |-> ""]

LocInit ==
    [k |-> 1, locked |-> <<>>, uids |-> <<>>, ucode |-> 0,
     snaps |-> <<>>, insts |-> <<>>, atts |-> <<>>, old_atts |-> <<>>,
     vg |-> 0, cvg |-> 0, cloned |-> <<>>, cboot |-> <<>>, cblk |-> <<>>,
     tagv |-> 0, tags |-> NoTag, new_id |-> 0, no |-> 0,
     vgdel |-> {}, saved |-> <<>>, ufail |-> {}]

Snapshot == [objects |-> objects, locks |-> locks, inst |-> inst, vols |-> vols, vgs |-> vgs]

InitCommon ==
    /\ objects = <<>>
    /\ locks = {}
    /\ inst = InitInst
    /\ vols = InitVols
    /\ vgs = {}
    /\ pc = [p \in Procs |-> "idle"]
    /\ op = [p \in Procs |-> NoOp]
    /\ loc = [p \in Procs |-> LocInit]
    /\ code = [p \in Procs |-> 0]
    /\ nops = 0
    /\ pre = [objects |-> <<>>, locks |-> {}, inst |-> InitInst, vols |-> InitVols, vgs |-> {}]

\* invocations run one after the other
Init == InitCommon /\ par = FALSE /\ nfail = 0

\* invocations of two users overlap
InitConc == InitCommon /\ par = TRUE /\ nfail = MaxFaults + MaxUnlockFaults

\* ------------------------------------------------------- main: command line
Ended(p) == pc[p] \in {"idle", "done", "crashed"}

OneIdOps ==
    {[type |-> t, ids |-> <<i>>, name |-> n, name2 |-> n, desc |-> "d1"] :
        t \in {"create", "rollback", "delete"}, i \in DOMAIN inst, n \in Names}
    \cup {[type |-> "rename", ids |-> <<i>>, name |-> n, name2 |-> m, desc |-> ""] :
        i \in DOMAIN inst, n \in Names, m \in Names}
    \cup {[type |-> "change_desc", ids |-> <<i>>, name |-> n, name2 |-> n, desc |-> "d2"] :
        i \in DOMAIN inst, n \in Names}
    \cup {[type |-> t, ids |-> <<i>>, name |-> "", name2 |-> "", desc |-> ""] :
        t \in {"delete_all", "list"}, i \in DOMAIN inst}

MultiOps ==
    {[type |-> "create_multi", ids |-> <<i, j>>, name |-> n, name2 |-> n, desc |-> "d1"] :
        i \in DOMAIN inst, j \in DOMAIN inst, n \in Names} 

Ops == {o \in OneIdOps \cup MultiOps : Len(o.ids) = 1 \/ o.ids[1] < o.ids[2]}
          \cup {[type |-> "list_all", ids |-> <<>>, name |-> "", name2 |-> "", desc |-> ""]}

\* the command lines of the two users whose invocations overlap: both work on
\* instance 1 and on the snapshot ConcName (renamed to the other name)
ConcName == "snap_a"

ConcOps ==
    {o \in Ops : /\ o.type # "list_all" => o.ids[1] = 1
                 /\ o.name \in {"", ConcName}
                 /\ o.type = "rename" => o.name2 # ConcName}

\* the first function main calls for the operation
FirstPc(o) ==
    CASE o.type = "list_all" -> "list_all"
      [] o.type = "list"     -> "list"
      [] OTHER               -> "lock_list"

Start(p) ==
    /\ Ended(p)
    /\ nops < MaxOps
    /\ IF par THEN TRUE ELSE p = "p1" /\ \A q \in Procs : Ended(q)
    /\ \E o \in IF par THEN ConcOps ELSE Ops :
          /\ op' = [op EXCEPT ![p] = o]
          /\ pc' = [pc EXCEPT ![p] = FirstPc(o)]
    /\ loc' = [loc EXCEPT ![p] = [LocInit EXCEPT !.no = nops + 1]]
    /\ code' = [code EXCEPT ![p] = 0]
    /\ nops' = nops + 1
    /\ pre' = IF par THEN pre ELSE Snapshot
    /\ UNCHANGED <<objects, locks, inst, vols, vgs, nfail, par>>

\* ------------------------------------------------------------------ lock()
\* the first function of the operation, called when lock() has returned
BodyPc(o) ==
    CASE o.type \in {"create", "create_multi"} -> "cr_load"
      [] o.type = "rollback"    -> "rb_inst"
      [] o.type = "delete"      -> "del_load"
      [] o.type = "delete_all"  -> "da_load"
      [] o.type = "rename"      -> "rn_load"
      [] o.type = "change_desc" -> "cd_load"

\* list_objects(prefix="lock") and the test for a lock of one of the instances
LockList(p) ==
    /\ pc[p] = "lock_list"
    /\ \E ok \in Outcomes :
          /\ nfail' = IF ok THEN nfail ELSE nfail + 1
          /\ IF ~ok
             THEN \* "response" is unbound: the script stops with a traceback
                  /\ pc' = [pc EXCEPT ![p] = "crashed"]
                  /\ code' = [code EXCEPT ![p] = 1]
             ELSE IF lock_present(locks, op[p].ids)
             THEN /\ pc' = [pc EXCEPT ![p] = "done"]
                  /\ code' = [code EXCEPT ![p] = 14]
             ELSE /\ pc' = [pc EXCEPT ![p] = "lock_put"]
                  /\ code' = code
    /\ UNCHANGED <<objects, locks, inst, vols, vgs, op, loc, nops, par, pre>>

\* one turn of the loop that puts the lock objects
LockPut(p) ==
    /\ pc[p] = "lock_put"
    /\ LET k == loc[p].k
           instance_id == op[p].ids[k] IN
       \E ok \in Outcomes :
          /\ nfail' = IF ok THEN nfail ELSE nfail + 1
          /\ IF ok
             THEN /\ locks' = locks \cup {instance_id}
                  /\ loc' = [loc EXCEPT ![p].locked = Append(@, instance_id),
                                        ![p].k = IF k = Len(op[p].ids) THEN 1 ELSE k + 1]
                  /\ pc' = [pc EXCEPT ![p] =
                               IF k = Len(op[p].ids) THEN BodyPc(op[p]) ELSE "lock_put"]
             ELSE /\ locks' = locks
                  /\ loc' = [loc EXCEPT ![p].uids = loc[p].locked, ![p].ucode = 15]
                  /\ pc' = [pc EXCEPT ![p] = "unlock"]
    /\ UNCHANGED <<objects, inst, vols, vgs, op, code, nops, par, pre>>

\* unlock(uids) followed by exit(ucode)
Unlock(p) ==
    /\ pc[p] = "unlock"
    /\ \E failed \in UnlockFailSets(Range(loc[p].uids)) :
          /\ locks' = unlock(locks, loc[p].uids, failed)
          /\ nfail' = nfail + Cardinality(failed)
          /\ loc' = [loc EXCEPT ![p].ufail = failed]
    /\ pc' = [pc EXCEPT ![p] = "done"]
    /\ code' = [code EXCEPT ![p] = loc[p].ucode]
    /\ UNCHANGED <<objects, inst, vols, vgs, op, nops, par, pre>>

\* the local variables with the arguments of the unlock() that precedes exit
ThenUnlock(l, instance_ids, c) == [l EXCEPT !.uids = instance_ids, !.ucode = c]

\* the local variables once save_snapshots_dict(dict, instance_id) has returned
Saved(l, dict, instance_id) ==
    [l EXCEPT !.saved = << [dict |-> dict, instance_id |-> instance_id] >>]

\* ------------------------------------------------------- shared functions
\* get_instance_details: error 9 when get_instance raises, error 8 for an
\* instance in state TERMINATED or TERMINATING, else the instance
get_instance_details(instance_id, ok) ==
    IF ~ok THEN [err |-> 9, data |-> inst[instance_id]]
    ELSE IF inst[instance_id].state \in {"TERMINATED", "TERMINATING"}
    THEN [err |-> 8, data |-> inst[instance_id]]
    ELSE [err |-> 0, data |-> inst[instance_id]]

\* the cloned volumes a snapshot entry names
cloned_ids(snap) ==
    {snap.boot_volume.cloned_id} \cup {b.cloned_id : b \in Range(snap.block_volumes)}

\* delete_volume / delete_boot_volume on the volumes V
delete_volumes(vs, V) ==
    [v \in DOMAIN vs |-> IF v \in V THEN [vs[v] EXCEPT !.exists = FALSE] ELSE vs[v]]

\* the dictionary the process loaded for the instance of a one-instance operation
Dict(p) == loc[p].snaps[op[p].ids[1]]

\* ------------------------------------------------- change_snapshot_decription
CdLoad(p) ==
    /\ pc[p] = "cd_load"
    /\ LET instance_id == op[p].ids[1] IN
       \E ok \in Outcomes :
          LET dict == load_snapshots_dict(objects, instance_id, ok) IN
          /\ nfail' = IF ok THEN nfail ELSE nfail + 1
          /\ IF snap_index(dict, op[p].name) = 0
             THEN /\ loc' = [loc EXCEPT ![p] = ThenUnlock(@, <<instance_id>>, 3)]
                  /\ pc' = [pc EXCEPT ![p] = "unlock"]
             ELSE /\ loc' = [loc EXCEPT ![p].snaps = (instance_id :> dict)]
                  /\ pc' = [pc EXCEPT ![p] = "cd_save"]
    /\ UNCHANGED <<objects, locks, inst, vols, vgs, op, code, nops, par, pre>>

\* the end of an operation on one instance: save_snapshots_dict(dict), then
\* main calls unlock and exit(0); ERROR 07 when put_object raises
SaveAndEnd(p, dict, instance_id, unlock_id) ==
    \E ok \in Outcomes :
       /\ nfail' = IF ok THEN nfail ELSE nfail + 1
       /\ objects' = save_snapshots_dict(objects, dict, instance_id, ok)
       /\ loc' = [loc EXCEPT ![p] =
                     IF save_puts(dict) /\ ~ok
                     THEN ThenUnlock(@, <<instance_id>>, 7)
                     ELSE ThenUnlock(Saved(@, dict, instance_id), <<unlock_id>>, 0)]
       /\ pc' = [pc EXCEPT ![p] = "unlock"]

CdSave(p) ==
    /\ pc[p] = "cd_save"
    /\ LET x == snap_index(Dict(p), op[p].name)
           dict == [Dict(p) EXCEPT !.snapshots[x].description = op[p].desc]
       IN  SaveAndEnd(p, dict, op[p].ids[1], op[p].ids[1])
    /\ UNCHANGED <<locks, inst, vols, vgs, op, code, nops, par, pre>>

\* ------------------------------------------------------------ delete_snapshot
DelLoad(p) ==
    /\ pc[p] = "del_load"
    /\ \E ok \in Outcomes :
          /\ nfail' = IF ok THEN nfail ELSE nfail + 1
          /\ loc' = [loc EXCEPT ![p].snaps =
                        (op[p].ids[1] :> load_snapshots_dict(objects, op[p].ids[1], ok))]
    /\ pc' = [pc EXCEPT ![p] = "del_inst"]
    /\ UNCHANGED <<objects, locks, inst, vols, vgs, op, code, nops, par, pre>>

DelInst(p) ==
    /\ pc[p] = "del_inst"
    /\ LET instance_id == op[p].ids[1] IN
       \E ok \in Outcomes :
          LET r == get_instance_details(instance_id, ok) IN
          /\ nfail' = IF ok THEN nfail ELSE nfail + 1
          /\ IF r.err # 0
             THEN /\ loc' = [loc EXCEPT ![p] = ThenUnlock(@, <<instance_id>>, r.err)]
                  /\ pc' = [pc EXCEPT ![p] = "unlock"]
             ELSE IF snap_index(Dict(p), op[p].name) = 0
             THEN /\ loc' = [loc EXCEPT ![p] = ThenUnlock(@, <<instance_id>>, 3)]
                  /\ pc' = [pc EXCEPT ![p] = "unlock"]
             ELSE /\ loc' = [loc EXCEPT ![p].tags = r.data.tags]
                  /\ pc' = [pc EXCEPT ![p] = "del_vols"]
    /\ UNCHANGED <<objects, locks, inst, vols, vgs, op, code, nops, par, pre>>

\* delete_cloned_volumes(snap): a delete that raises is only a warning
DelVols(p) ==
    /\ pc[p] = "del_vols"
    /\ LET snap == Dict(p).snapshots[snap_index(Dict(p), op[p].name)] IN
       \E failed \in FailSets(cloned_ids(snap)) :
          /\ vols' = delete_volumes(vols, cloned_ids(snap) \ failed)
          /\ nfail' = nfail + Cardinality(failed)
    /\ pc' = [pc EXCEPT ![p] = "del_tag"]
    /\ UNCHANGED <<objects, locks, inst, vgs, op, loc, code, nops, par, pre>>

\* del ff_tags[tag_key] and update_instance, both in one try
DelTag(p) ==
    /\ pc[p] = "del_tag"
    /\ LET instance_id == op[p].ids[1]
           ff_tags == [loc[p].tags EXCEPT ![op[p].name] = 0] IN
       IF loc[p].tags[op[p].name] = 0
       THEN \* KeyError: update_instance is not called
            UNCHANGED <<inst, nfail>>
       ELSE \E ok \in Outcomes :
               /\ nfail' = IF ok THEN nfail ELSE nfail + 1
               /\ inst' = IF ok THEN [inst EXCEPT ![instance_id].tags = ff_tags] ELSE inst
    /\ pc' = [pc EXCEPT ![p] = "del_save"]
    /\ UNCHANGED <<objects, locks, vols, vgs, op, loc, code, nops, par, pre>>

DelSave(p) ==
    /\ pc[p] = "del_save"
    /\ SaveAndEnd(p, remove_snap(Dict(p), op[p].name), op[p].ids[1], op[p].ids[1])
    /\ UNCHANGED <<locks, inst, vols, vgs, op, code, nops, par, pre>>

\* ------------------------------------------------------- delete_all_snapshots
DaLoad(p) ==
    /\ pc[p] = "da_load"
    /\ \E ok \in Outcomes :
          /\ nfail' = IF ok THEN nfail ELSE nfail + 1
          /\ loc' = [loc EXCEPT ![p].snaps =
                        (op[p].ids[1] :> load_snapshots_dict(objects, op[p].ids[1], ok))]
    /\ pc' = [pc EXCEPT ![p] = "da_inst"]
    /\ UNCHANGED <<objects, locks, inst, vols, vgs, op, code, nops, par, pre>>

DaInst(p) ==
    /\ pc[p] = "da_inst"
    /\ LET instance_id == op[p].ids[1] IN
       \E ok \in Outcomes :
          LET r == get_instance_details(instance_id, ok) IN
          /\ nfail' = IF ok THEN nfail ELSE nfail + 1
          /\ IF r.err # 0
             THEN /\ loc' = [loc EXCEPT ![p] = ThenUnlock(@, <<instance_id>>, r.err)]
                  /\ pc' = [pc EXCEPT ![p] = "unlock"]
             ELSE /\ loc' = [loc EXCEPT ![p].tags = r.data.tags]
                  /\ pc' = [pc EXCEPT ![p] = "da_vols"]
    /\ UNCHANGED <<objects, locks, inst, vols, vgs, op, code, nops, par, pre>>

\* the loop over the snapshots: delete_cloned_volumes and del ff_tags[tag_key]
DaVols(p) ==
    /\ pc[p] = "da_vols"
    /\ LET V == UNION {cloned_ids(s) : s \in Range(Dict(p).snapshots)}
           gone == {s.name : s \in Range(Dict(p).snapshots)} IN
       \E failed \in FailSets(V) :
          /\ vols' = delete_volumes(vols, V \ failed)
          /\ nfail' = nfail + Cardinality(failed)
          /\ loc' = [loc EXCEPT ![p].tags =
                        [n \in TagKeys |-> IF n \in gone THEN 0 ELSE loc[p].tags[n]]]
    /\ pc' = [pc EXCEPT ![p] = "da_save"]
    /\ UNCHANGED <<objects, locks, inst, vgs, op, code, nops, par, pre>>

\* update_instance with the remaining tags, then the dictionary is saved
\* with an empty list
DaSave(p) ==
    /\ pc[p] = "da_save"
    /\ LET instance_id == op[p].ids[1]
           dict == [Dict(p) EXCEPT !.snapshots = <<>>] IN
       \E failed \in FailSets({"update_instance", "delete_object"}) :
          /\ nfail' = nfail + Cardinality(failed)
          /\ inst' = IF "update_instance" \in failed THEN inst
                     ELSE [inst EXCEPT ![instance_id].tags = loc[p].tags]
          /\ objects' = save_snapshots_dict(objects, dict, instance_id,
                                            "delete_object" \notin failed)
          /\ loc' = [loc EXCEPT ![p] =
                        ThenUnlock(Saved(@, dict, instance_id), <<instance_id>>, 0)]
    /\ pc' = [pc EXCEPT ![p] = "unlock"]
    /\ UNCHANGED <<locks, vols, vgs, op, code, nops, par, pre>>

\* ------------------------------------------------------ create_snapshot_multi
\* a name check that finds no name used
name_used_never(snaps_dict, instance_ids, snapshot_name) ==
    \E instance_id \in Range(instance_ids) :
       \E snap \in Range(snaps_dict[instance_id].snapshots) : FALSE

\* the snapshot name is already used on one of the instances
name_used(snaps_dict, instance_ids, snapshot_name) ==
    \E instance_id \in Range(instance_ids) :
       \E snap \in Range(snaps_dict[instance_id].snapshots) : snap.name = snapshot_name

\* the volume attachments of the instance that create keeps
attached(instance_id) ==
    SelectSeq(inst[instance_id].atts, LAMBDA a : a.lifecycle_state = "ATTACHED")

\* the volumes of the temporary volume group: for each instance the boot
\* volume, then the attached block volumes
RECURSIVE volume_ids(_, _, _)
volume_ids(instance_ids, insts, atts) ==
    IF instance_ids = <<>> THEN <<>>
    ELSE LET instance_id == Head(instance_ids) IN
         <<insts[instance_id].boot>>
            \o [x \in DOMAIN atts[instance_id] |-> atts[instance_id][x].volume_id]
            \o volume_ids(Tail(instance_ids), insts, atts)

\* re.search('^(.+?)_<keyword>.*$', display_name).group(1), <<>> when the
\* name does not match
name_prefix(display_name, keyword) ==
    LET J == {j \in DOMAIN display_name : j > 1 /\ display_name[j] = keyword} IN
    IF J = {} THEN <<>>
    ELSE SubSeq(display_name, 1, (CHOOSE j \in J : \A i \in J : j <= i) - 1)

\* a volume update that renames the clone and leaves its tags
rename_volume_only(vs, vol_id, snapshot_name, tag_value, keyword) ==
    [vs EXCEPT ![vol_id].display_name =
                   name_prefix(vs[vol_id].display_name, keyword) \o <<"snapshot", snapshot_name>>]

\* rename_and_tag_boot_volume / rename_and_tag_block_volume
rename_and_tag_volume(vs, vol_id, snapshot_name, tag_value, keyword) ==
    [vs EXCEPT ![vol_id].display_name =
                   name_prefix(vs[vol_id].display_name, keyword) \o <<"snapshot", snapshot_name>>,
               ![vol_id].tags[snapshot_name] = tag_value]

\* remove_boot_volume_tag / remove_block_volume_tag
remove_volume_tag(vs, vol_id, snapshot_name) ==
    [vs EXCEPT ![vol_id].tags[snapshot_name] = 0]

CrLoad(p) ==
    /\ pc[p] = "cr_load"
    /\ \E failed \in FailSets(Range(op[p].ids)) :
          /\ nfail' = nfail + Cardinality(failed)
          /\ loc' = [loc EXCEPT ![p].snaps =
                        [i \in Range(op[p].ids) |->
                            load_snapshots_dict(objects, i, i \notin failed)]]
    /\ pc' = [pc EXCEPT ![p] = "cr_check"]
    /\ UNCHANGED <<objects, locks, inst, vols, vgs, op, code, nops, par, pre>>

\* the checks made before the first volume group is created: the exit code
\* of the first check that stops the script, 0 when all pass
create_checks(snaps_dict, instance_ids, snapshot_name, failed) ==
    IF \E i \in Range(instance_ids) : get_instance_details(i, i \notin failed).err # 0
    THEN 17
    ELSE IF \E i \in Range(instance_ids) : inst[i].ad # inst[instance_ids[1]].ad
    THEN 18
    ELSE IF name_used(snaps_dict, instance_ids, snapshot_name)
    THEN 1
    ELSE IF \E i \in Range(instance_ids) : inst[i].public_ip = "EPHEMERAL"
    THEN 6
    ELSE 0

CrCheck(p) ==
    /\ pc[p] = "cr_check"
    /\ \E failed \in FailSets(Range(op[p].ids)) :
          LET c == create_checks(loc[p].snaps, op[p].ids, op[p].name, failed) IN
          /\ nfail' = nfail + Cardinality(failed)
          /\ IF c # 0
             THEN /\ loc' = [loc EXCEPT ![p] = ThenUnlock(@, op[p].ids, c)]
                  /\ pc' = [pc EXCEPT ![p] = "unlock"]
             ELSE /\ loc' = [loc EXCEPT
                                ![p].insts = [i \in Range(op[p].ids) |-> inst[i]],
                                ![p].atts  = [i \in Range(op[p].ids) |-> attached(i)]]
                  /\ pc' = [pc EXCEPT ![p] = "cr_vg"]
    /\ UNCHANGED <<objects, locks, inst, vols, vgs, op, code, nops, par, pre>>

\* a volume group of invocation number no
VolumeGroup(no, kind, snapshot_name, state, volume_ids_) ==
    [owner |-> no, kind |-> kind, name |-> snapshot_name, state |-> state,
     volume_ids |-> volume_ids_]

\* create_volume_group for snapshot_<name>_tempo_source; ERROR 16 when it raises
CrVg(p) ==
    /\ pc[p] = "cr_vg"
    /\ \E ok \in Outcomes :
          /\ nfail' = IF ok THEN nfail ELSE nfail + 1
          /\ IF ok
             THEN /\ vgs' = vgs \cup {VolumeGroup(loc[p].no, "tempo_source", op[p].name,
                                         "AVAILABLE", volume_ids(op[p].ids, loc[p].insts, loc[p].atts))}
                  /\ loc' = [loc EXCEPT ![p].vg = loc[p].no]
                  /\ pc' = [pc EXCEPT ![p] = "cr_clone"]
             ELSE /\ vgs' = vgs
                  /\ loc' = [loc EXCEPT ![p] = ThenUnlock(@, op[p].ids, 16)]
                  /\ pc' = [pc EXCEPT ![p] = "unlock"]
    /\ UNCHANGED <<objects, locks, inst, vols, op, code, nops, par, pre>>

\* create_volume_group for snapshot_<name>_tempo_cloned, retried until it
\* is accepted; the clone starts in state PROVISIONING
CrClone(p) ==
    /\ pc[p] = "cr_clone"
    /\ LET src == volume_ids(op[p].ids, loc[p].insts, loc[p].atts)
           new == [x \in DOMAIN src |->
                      [kind |-> vols[src[x]].kind, exists |-> TRUE,
                       display_name |-> vols[src[x]].display_name \o <<"cloned">>,
                       tags |-> NoTag, src |-> src[x]]] IN
       \E ok \in Outcomes :
          /\ nfail' = IF ok THEN nfail ELSE nfail + 1
          /\ IF ok
             THEN /\ vols' = vols \o new
                  /\ vgs' = vgs \cup {VolumeGroup(loc[p].no, "tempo_cloned", op[p].name,
                                         "PROVISIONING",
                                         [x \in DOMAIN src |-> Len(vols) + x])}
                  /\ loc' = [loc EXCEPT ![p].cvg = loc[p].no,
                                        ![p].cloned = [x \in DOMAIN src |-> Len(vols) + x],
                                        ![p].k = 1]
                  /\ pc' = [pc EXCEPT ![p] = "cr_wait"]
             ELSE UNCHANGED <<vols, vgs, loc, pc>>
    /\ UNCHANGED <<objects, locks, inst, op, code, nops, par, pre>>

\* a polling loop that reads the state of the source group, not of the clone
ClonedVg_source(p) == {g \in vgs : g.owner = loc[p].vg /\ g.kind = "tempo_source"}

\* the cloned volume group of the process
ClonedVg(p) == {g \in vgs : g.owner = loc[p].cvg /\ g.kind = "tempo_cloned"}

\* the polling loop ends when the clone is no longer PROVISIONING;
\* tag_value is read from the clock
CrWait(p) ==
    /\ pc[p] = "cr_wait"
    /\ \A g \in ClonedVg(p) : g.state # "PROVISIONING"
    /\ loc' = [loc EXCEPT ![p].tagv = loc[p].no]
    /\ pc' = [pc EXCEPT ![p] = "cr_tag"]
    /\ UNCHANGED <<objects, locks, inst, vols, vgs, op, code, nops, nfail, par, pre>>

\* one turn of the loop over cloned_volume_ids: rename_and_tag, then the
\* source of the clone (ERROR 10, ERROR 11) and the dictionaries of clones
CrTag(p) ==
    /\ pc[p] = "cr_tag"
    /\ LET k == loc[p].k
           cloned_volume_id == loc[p].cloned[k]
           source_id == vols[cloned_volume_id].src
           owners == {i \in Range(op[p].ids) :
                       \/ loc[p].insts[i].boot = source_id
                       \/ \E a \in Range(loc[p].atts[i]) : a.volume_id = source_id}
           owner == IF owners = {} THEN op[p].ids[Len(op[p].ids)]
                    ELSE CHOOSE i \in owners : TRUE
           last == k = Len(loc[p].cloned)
           tagged == rename_and_tag_volume(vols, cloned_volume_id, op[p].name,
                                           loc[p].tagv, "cloned") IN
       \E outcome \in {"ok"} \cup (IF nfail < MaxFaults THEN {"tag_raises", "get_raises"} ELSE {}) :
          /\ nfail' = IF outcome = "ok" THEN nfail ELSE nfail + 1
          /\ vols' = IF outcome = "tag_raises" THEN vols ELSE tagged
          /\ IF outcome = "get_raises"
             THEN /\ loc' = [loc EXCEPT ![p] = ThenUnlock(@, op[p].ids,
                                IF vols[cloned_volume_id].kind = "boot" THEN 10 ELSE 11)]
                  /\ pc' = [pc EXCEPT ![p] = "unlock"]
             ELSE /\ loc' = [loc EXCEPT
                       ![p].k = IF last THEN 1 ELSE k + 1,
                       ![p].cboot = IF outcome = "ok" /\ vols[cloned_volume_id].kind = "boot"
                                    THEN Put(@, owner, cloned_volume_id) ELSE @,
                       ![p].cblk = IF outcome = "ok" /\ vols[cloned_volume_id].kind = "block"
                                   THEN Put(@, source_id, cloned_volume_id) ELSE @]
                  /\ pc' = [pc EXCEPT ![p] = IF last THEN "cr_delvg" ELSE "cr_tag"]
    /\ UNCHANGED <<objects, locks, inst, vgs, op, code, nops, par, pre>>

\* a cleanup that deletes the source group and forgets the cloned one
delete_source_group_only(gs, no, deleted) ==
    {g \in gs : ~(g.owner = no /\ g.kind \in deleted /\ g.kind = "tempo_source")}

\* the volume groups left when the delete_volume_group calls for the groups
\* of invocation no whose kind is in deleted have succeeded
delete_volume_groups(gs, no, deleted) ==
    {g \in gs : ~(g.owner = no /\ g.kind \in deleted)}

\* delete_volume_group(vg_id) and delete_volume_group(cvg_id) in one try:
\* when the first raises the second is not called
CrDelVg(p) ==
    /\ pc[p] = "cr_delvg"
    /\ \E deleted \in {{"tempo_source", "tempo_cloned"}} \cup
                      (IF nfail < MaxFaults THEN {{}, {"tempo_source"}} ELSE {}) :
          /\ nfail' = IF Cardinality(deleted) = 2 THEN nfail ELSE nfail + 1
          /\ vgs' = delete_volume_groups(vgs, loc[p].no, deleted)
          /\ loc' = [loc EXCEPT ![p].vgdel = deleted]
    /\ pc' = [pc EXCEPT ![p] = "cr_taginst"]
    /\ UNCHANGED <<objects, locks, inst, vols, op, code, nops, par, pre>>

\* update_instance with the tags read by get_instance_details plus the new tag
CrTagInst(p) ==
    /\ pc[p] = "cr_taginst"
    /\ \E failed \in FailSets(Range(op[p].ids)) :
          /\ nfail' = nfail + Cardinality(failed)
          /\ inst' = [i \in DOMAIN inst |->
                        IF i \in Range(op[p].ids) \ failed
                        THEN [inst[i] EXCEPT !.tags =
                                 [loc[p].insts[i].tags EXCEPT ![op[p].name] = loc[p].tagv]]
                        ELSE inst[i]]
    /\ loc' = [loc EXCEPT ![p].k = 1]
    /\ pc' = [pc EXCEPT ![p] = "cr_save"]
    /\ UNCHANGED <<objects, locks, vols, vgs, op, code, nops, par, pre>>

\* the snapshot entry create appends for an instance
new_snap(p, instance_id) ==
    [name |-> op[p].name, description |-> op[p].desc, date_time |-> loc[p].tagv,
     boot_volume |-> [name |-> vols[loc[p].insts[instance_id].boot].display_name,
                      cloned_id |-> loc[p].cboot[instance_id]],
     block_volumes |->
        [x \in DOMAIN loc[p].atts[instance_id] |->
           LET a == loc[p].atts[instance_id][x] IN
           [name |-> vols[a.volume_id].display_name, cloned_id |-> loc[p].cblk[a.volume_id],
            device |-> a.device, attachment_type |-> a.attachment_type,
            display_name |-> a.display_name, is_read_only |-> a.is_read_only,
            is_shareable |-> a.is_shareable]]]

\* one turn of the loop that updates the snapshots database; a clone that
\* is missing in the dictionaries of clones is a KeyError
CrSave(p) ==
    /\ pc[p] = "cr_save"
    /\ LET k == loc[p].k
           instance_id == op[p].ids[k]
           last == k = Len(op[p].ids)
           known == /\ instance_id \in DOMAIN loc[p].cboot
                    /\ \A a \in Range(loc[p].atts[instance_id]) :
                          a.volume_id \in DOMAIN loc[p].cblk IN
       IF ~known
       THEN /\ pc' = [pc EXCEPT ![p] = "crashed"]
            /\ code' = [code EXCEPT ![p] = 1]
            /\ UNCHANGED <<objects, loc, nfail>>
       ELSE LET dict == [loc[p].snaps[instance_id] EXCEPT
                            !.snapshots = Append(@, new_snap(p, instance_id))] IN
            \E ok \in Outcomes :
               /\ nfail' = IF ok THEN nfail ELSE nfail + 1
               /\ objects' = save_snapshots_dict(objects, dict, instance_id, ok)
               /\ code' = code
               /\ IF ~ok
                  THEN /\ loc' = [loc EXCEPT ![p] = ThenUnlock(@, <<instance_id>>, 7)]
                       /\ pc' = [pc EXCEPT ![p] = "unlock"]
                  ELSE IF last
                  THEN /\ loc' = [loc EXCEPT ![p] =
                                     ThenUnlock(Saved(@, dict, instance_id), op[p].ids, 0)]
                       /\ pc' = [pc EXCEPT ![p] = "unlock"]
                  ELSE /\ loc' = [loc EXCEPT ![p] = [Saved(@, dict, instance_id)
                                                        EXCEPT !.k = k + 1]]
                       /\ pc' = pc
    /\ UNCHANGED <<locks, inst, vols, vgs, op, nops, par, pre>>

\* ---------------------------------------------------------- rollback_snapshot
RbInst(p) ==
    /\ pc[p] = "rb_inst"
    /\ LET instance_id == op[p].ids[1] IN
       \E ok \in Outcomes :
          LET r == get_instance_details(instance_id, ok) IN
          /\ nfail' = IF ok THEN nfail ELSE nfail + 1
          /\ IF r.err # 0
             THEN /\ loc' = [loc EXCEPT ![p] = ThenUnlock(@, <<instance_id>>, r.err)]
                  /\ pc' = [pc EXCEPT ![p] = "unlock"]
             ELSE /\ loc' = [loc EXCEPT ![p].insts = (instance_id :> r.data)]
                  /\ pc' = [pc EXCEPT ![p] = "rb_load"]
    /\ UNCHANGED <<objects, locks, inst, vols, vgs, op, code, nops, par, pre>>

\* rollback without stop_if_ephemeral_public_ip
rollback_checks_no_ip(dict, snapshot_name, public_ip) ==
    IF snap_index(dict, snapshot_name) = 0 THEN 3 ELSE 0

\* the two checks of rollback: the exit code of the check that stops the
\* script (3: no such snapshot, 6: ephemeral public IP), 0 when both pass
rollback_checks(dict, snapshot_name, public_ip) ==
    IF snap_index(dict, snapshot_name) = 0 THEN 3
    ELSE IF public_ip = "EPHEMERAL" THEN 6
    ELSE 0

\* load_snapshots_dict, the two checks and list_volume_attachments
RbLoad(p) ==
    /\ pc[p] = "rb_load"
    /\ LET instance_id == op[p].ids[1] IN
       \E ok \in Outcomes :
          LET dict == load_snapshots_dict(objects, instance_id, ok)
              c == rollback_checks(dict, op[p].name, inst[instance_id].public_ip) IN
          /\ nfail' = IF ok THEN nfail ELSE nfail + 1
          /\ IF c # 0
             THEN /\ loc' = [loc EXCEPT ![p] = ThenUnlock(@, <<instance_id>>, c)]
                  /\ pc' = [pc EXCEPT ![p] = "unlock"]
             ELSE /\ loc' = [loc EXCEPT ![p].snaps = (instance_id :> dict),
                                        ![p].old_atts = inst[instance_id].atts]
                  /\ pc' = [pc EXCEPT ![p] = "rb_term"]
    /\ UNCHANGED <<objects, locks, inst, vols, vgs, op, code, nops, par, pre>>

\* terminate_instance(instance_id, preserve_boot_volume=False)
RbTerm(p) ==
    /\ pc[p] = "rb_term"
    /\ inst' = [inst EXCEPT ![op[p].ids[1]].state = "TERMINATING"]
    /\ pc' = [pc EXCEPT ![p] = "rb_wait_term"]
    /\ UNCHANGED <<objects, locks, vols, vgs, op, loc, code, nops, nfail, par, pre>>

\* wait_for_instance_status(instance_id, "TERMINATED")
RbWaitTerm(p) ==
    /\ pc[p] = "rb_wait_term"
    /\ inst[op[p].ids[1]].state = "TERMINATED"
    /\ pc' = [pc EXCEPT ![p] = "rb_launch"]
    /\ UNCHANGED <<objects, locks, inst, vols, vgs, op, loc, code, nops, nfail, par, pre>>

\* the snapshot entry the rollback is about
RbSnap(p) == Dict(p).snapshots[snap_index(Dict(p), op[p].name)]

\* rename_boot_volume (a warning when it raises) and launch_instance from the
\* cloned boot volume, with the tags of the old instance but the snapshot tag
RbLaunch(p) ==
    /\ pc[p] = "rb_launch"
    /\ LET old == loc[p].insts[op[p].ids[1]]
           new_bootvol_id == RbSnap(p).boot_volume.cloned_id IN
       \E ok \in Outcomes :
          /\ nfail' = IF ok THEN nfail ELSE nfail + 1
          /\ LET renamed == IF ok /\ vols[new_bootvol_id].exists
                            THEN [vols EXCEPT ![new_bootvol_id].display_name =
                                                   RbSnap(p).boot_volume.name]
                            ELSE vols IN
             IF ~vols[new_bootvol_id].exists
             THEN \* launch_instance raises
                  /\ pc' = [pc EXCEPT ![p] = "crashed"]
                  /\ code' = [code EXCEPT ![p] = 1]
                  /\ UNCHANGED <<inst, vols, loc>>
             ELSE /\ vols' = renamed
                  /\ inst' = Append(inst,
                        [state |-> "PROVISIONING",
                         tags |-> [old.tags EXCEPT ![op[p].name] = 0],
                         public_ip |-> "NONE", ad |-> old.ad,
                         boot |-> new_bootvol_id, atts |-> <<>>])
                  /\ loc' = [loc EXCEPT ![p].new_id = Len(inst) + 1]
                  /\ pc' = [pc EXCEPT ![p] = "rb_wait_run"]
                  /\ code' = code
    /\ UNCHANGED <<objects, locks, vgs, op, nops, par, pre>>

\* wait_for_instance_status(new_instance_id, "RUNNING")
RbWaitRun(p) ==
    /\ pc[p] = "rb_wait_run"
    /\ inst[loc[p].new_id].state = "RUNNING"
    /\ pc' = [pc EXCEPT ![p] = "rb_attach"]
    /\ UNCHANGED <<objects, locks, inst, vols, vgs, op, loc, code, nops, nfail, par, pre>>

\* the loop that attaches and renames the cloned block volumes; a call that
\* raises is a warning
RbAttach(p) ==
    /\ pc[p] = "rb_attach"
    /\ LET blkvols == RbSnap(p).block_volumes
           calls == {<<c, x>> : c \in {"attach", "rename"}, x \in DOMAIN blkvols} IN
       \E failed \in FailSets(calls) :
          /\ nfail' = nfail + Cardinality(failed)
          /\ inst' = [inst EXCEPT ![loc[p].new_id].atts =
                        LET done == SelectSeq([x \in DOMAIN blkvols |->
                                        [blk |-> blkvols[x], x |-> x]],
                                        LAMBDA e : <<"attach", e.x>> \notin failed) IN
                        [y \in DOMAIN done |->
                           [volume_id |-> done[y].blk.cloned_id, lifecycle_state |-> "ATTACHED",
                            device |-> done[y].blk.device,
                            attachment_type |-> done[y].blk.attachment_type,
                            display_name |-> done[y].blk.display_name,
                            is_read_only |-> done[y].blk.is_read_only,
                            is_shareable |-> done[y].blk.is_shareable]]]
          /\ vols' = [v \in DOMAIN vols |->
                        IF \E x \in DOMAIN blkvols :
                              blkvols[x].cloned_id = v /\ <<"rename", x>> \notin failed
                        THEN [vols[v] EXCEPT !.display_name =
                                 (CHOOSE b \in Range(blkvols) : b.cloned_id = v).name]
                        ELSE vols[v]]
    /\ pc' = [pc EXCEPT ![p] = "rb_delold"]
    /\ UNCHANGED <<objects, locks, vgs, op, loc, code, nops, par, pre>>

\* the volumes rollback deletes: every volume attachment listed for the old
\* instance
old_volume_ids(blkvol_attachments) == {a.volume_id : a \in Range(blkvol_attachments)}

\* delete_block_volume on the previously attached volumes; not in a try
RbDelOld(p) ==
    /\ pc[p] = "rb_delold"
    /\ LET V == old_volume_ids(loc[p].old_atts) IN
       \E ok \in (IF V = {} THEN {TRUE} ELSE Outcomes) :
          /\ nfail' = IF ok THEN nfail ELSE nfail + 1
          /\ IF ok /\ \A v \in V : vols[v].exists
             THEN /\ vols' = delete_volumes(vols, V)
                  /\ pc' = [pc EXCEPT ![p] = "rb_untag"]
                  /\ code' = code
             ELSE /\ vols' = vols
                  /\ pc' = [pc EXCEPT ![p] = "crashed"]
                  /\ code' = [code EXCEPT ![p] = 1]
    /\ UNCHANGED <<objects, locks, inst, vgs, op, loc, nops, par, pre>>

\* remove_boot_volume_tag and remove_block_volume_tag (not in a try: a tag
\* that is missing is a KeyError), then update_public_ip for a reserved IP
RbUntag(p) ==
    /\ pc[p] = "rb_untag"
    /\ LET V == cloned_ids(RbSnap(p))
           old == loc[p].insts[op[p].ids[1]] IN
       \E ok \in Outcomes :
          /\ nfail' = IF ok THEN nfail ELSE nfail + 1
          /\ IF ok /\ \A v \in V : vols[v].exists /\ vols[v].tags[op[p].name] # 0
             THEN /\ vols' = [v \in DOMAIN vols |->
                                IF v \in V THEN [vols[v] EXCEPT !.tags[op[p].name] = 0]
                                ELSE vols[v]]
                  /\ inst' = IF old.public_ip = "NONE" THEN inst
                             ELSE [inst EXCEPT ![loc[p].new_id].public_ip = old.public_ip]
                  /\ pc' = [pc EXCEPT ![p] = "rb_save"]
                  /\ code' = code
             ELSE /\ UNCHANGED <<vols, inst>>
                  /\ pc' = [pc EXCEPT ![p] = "crashed"]
                  /\ code' = [code EXCEPT ![p] = 1]
    /\ UNCHANGED <<objects, locks, vgs, op, loc, nops, par, pre>>

\* the dictionary rollback saves for the new instance
rollback_dict(dict, snapshot_name) == remove_snap(dict, snapshot_name)

\* save_snapshots_dict(snap_dict, new_instance_id), then
\* delete_snapshots_dict(instance_id)
RbSave(p) ==
    /\ pc[p] = "rb_save"
    /\ LET dict == rollback_dict(Dict(p), op[p].name)
           instance_id == op[p].ids[1] IN
       \E failed \in FailSets({"save", "delete"}) :
          /\ nfail' = nfail + Cardinality(failed)
          /\ IF save_puts(dict) /\ "save" \in failed
             THEN /\ objects' = objects
                  /\ loc' = [loc EXCEPT ![p] = ThenUnlock(@, <<loc[p].new_id>>, 7)]
             ELSE /\ objects' = delete_snapshots_dict(
                                   save_snapshots_dict(objects, dict, loc[p].new_id,
                                                       "save" \notin failed),
                                   instance_id, "delete" \notin failed)
                  /\ loc' = [loc EXCEPT ![p] =
                                ThenUnlock(Saved(@, dict, loc[p].new_id), <<instance_id>>, 0)]
    /\ pc' = [pc EXCEPT ![p] = "unlock"]
    /\ UNCHANGED <<locks, inst, vols, vgs, op, code, nops, par, pre>>

\* ------------------------------------------------------------ rename_snapshot
\* load_snapshots_dict, then ERROR 01 when the new name is used and
\* ERROR 03 when the old name is not
RnLoad(p) ==
    /\ pc[p] = "rn_load"
    /\ LET instance_id == op[p].ids[1] IN
       \E ok \in Outcomes :
          LET dict == load_snapshots_dict(objects, instance_id, ok)
              c == IF name_used((instance_id :> dict), <<instance_id>>, op[p].name2) THEN 1
                   ELSE IF snap_index(dict, op[p].name) = 0 THEN 3 ELSE 0 IN
          /\ nfail' = IF ok THEN nfail ELSE nfail + 1
          /\ IF c # 0
             THEN /\ loc' = [loc EXCEPT ![p] = ThenUnlock(@, <<instance_id>>, c)]
                  /\ pc' = [pc EXCEPT ![p] = "unlock"]
             ELSE /\ loc' = [loc EXCEPT ![p].snaps = (instance_id :> dict)]
                  /\ pc' = [pc EXCEPT ![p] = "rn_inst"]
    /\ UNCHANGED <<objects, locks, inst, vols, vgs, op, code, nops, par, pre>>

RnInst(p) ==
    /\ pc[p] = "rn_inst"
    /\ LET instance_id == op[p].ids[1] IN
       \E ok \in Outcomes :
          LET r == get_instance_details(instance_id, ok) IN
          /\ nfail' = IF ok THEN nfail ELSE nfail + 1
          /\ IF r.err # 0
             THEN /\ loc' = [loc EXCEPT ![p] = ThenUnlock(@, <<instance_id>>, r.err)]
                  /\ pc' = [pc EXCEPT ![p] = "unlock"]
             ELSE /\ loc' = [loc EXCEPT ![p].tags = r.data.tags]
                  /\ pc' = [pc EXCEPT ![p] = "rn_taginst"]
    /\ UNCHANGED <<objects, locks, inst, vols, vgs, op, code, nops, par, pre>>

\* the tags of the instance with the key of the old name replaced by the
\* key of the new name
renamed_tags(ff_tags, old_name, new_name) ==
    [[ff_tags EXCEPT ![old_name] = 0] EXCEPT ![new_name] = ff_tags[old_name]]

\* the try that moves the tag of the instance: without the old key the
\* KeyError leaves tag_value unbound (0) and the instance is not updated
RnTagInst(p) ==
    /\ pc[p] = "rn_taginst"
    /\ LET instance_id == op[p].ids[1] IN
       IF loc[p].tags[op[p].name] = 0
       THEN UNCHANGED <<inst, nfail, loc>>
       ELSE \E ok \in Outcomes :
               /\ nfail' = IF ok THEN nfail ELSE nfail + 1
               /\ loc' = [loc EXCEPT ![p].tagv = loc[p].tags[op[p].name], ![p].k = 1]
               /\ inst' = IF ok
                          THEN [inst EXCEPT ![instance_id].tags =
                                   renamed_tags(loc[p].tags, op[p].name, op[p].name2)]
                          ELSE inst
    /\ pc' = [pc EXCEPT ![p] = "rn_vols"]
    /\ UNCHANGED <<objects, locks, vols, vgs, op, code, nops, par, pre>>

\* the cloned volumes of the snapshot: the boot volume, then the block volumes
RnVolumes(p) ==
    LET snap == Dict(p).snapshots[snap_index(Dict(p), op[p].name)] IN
    <<snap.boot_volume.cloned_id>> \o
       [x \in DOMAIN snap.block_volumes |-> snap.block_volumes[x].cloned_id]

\* one cloned volume: remove_*_volume_tag, then rename_and_tag_*_volume with
\* keyword "snapshot"; neither is in a try
RnVols(p) ==
    /\ pc[p] = "rn_vols"
    /\ LET k == loc[p].k
           vol_id == RnVolumes(p)[k]
           last == k = Len(RnVolumes(p))
           can_remove == vols[vol_id].exists /\ vols[vol_id].tags[op[p].name] # 0
           can_rename == /\ loc[p].tagv # 0
                         /\ name_prefix(vols[vol_id].display_name, "snapshot") # <<>>
           removed == remove_volume_tag(vols, vol_id, op[p].name) IN
       \E outcome \in {"ok"} \cup
                      (IF nfail < MaxFaults THEN {"remove_raises", "rename_raises"} ELSE {}) :
          /\ nfail' = IF outcome = "ok" THEN nfail ELSE nfail + 1
          /\ IF ~can_remove \/ outcome = "remove_raises"
             THEN /\ vols' = vols
                  /\ pc' = [pc EXCEPT ![p] = "crashed"]
                  /\ code' = [code EXCEPT ![p] = 1]
                  /\ loc' = loc
             ELSE IF ~can_rename \/ outcome = "rename_raises"
             THEN /\ vols' = removed
                  /\ pc' = [pc EXCEPT ![p] = "crashed"]
                  /\ code' = [code EXCEPT ![p] = 1]
                  /\ loc' = loc
             ELSE /\ vols' = rename_and_tag_volume(removed, vol_id, op[p].name2,
                                                   loc[p].tagv, "snapshot")
                  /\ pc' = [pc EXCEPT ![p] = IF last THEN "rn_save" ELSE "rn_vols"]
                  /\ code' = code
                  /\ loc' = [loc EXCEPT ![p].k = IF last THEN 1 ELSE k + 1]
    /\ UNCHANGED <<objects, locks, inst, vgs, op, nops, par, pre>>

RnSave(p) ==
    /\ pc[p] = "rn_save"
    /\ LET x == snap_index(Dict(p), op[p].name)
           dict == [Dict(p) EXCEPT !.snapshots[x].name = op[p].name2]
       IN  SaveAndEnd(p, dict, op[p].ids[1], op[p].ids[1])
    /\ UNCHANGED <<locks, inst, vols, vgs, op, code, nops, par, pre>>

\* ------------------------------------------------------------- list_snapshots
\* get_instance_details(instance_id) with stop=True, then load_snapshots_dict
List(p) ==
    /\ pc[p] = "list"
    /\ LET instance_id == op[p].ids[1] IN
       \E ok \in Outcomes :
          LET r == get_instance_details(instance_id, ok) IN
          /\ nfail' = IF ok THEN nfail ELSE nfail + 1
          /\ IF r.err # 0
             THEN /\ loc' = [loc EXCEPT ![p] = ThenUnlock(@, <<instance_id>>, r.err)]
                  /\ pc' = [pc EXCEPT ![p] = "unlock"]
             ELSE /\ loc' = [loc EXCEPT ![p].snaps =
                                (instance_id :> load_snapshots_dict(objects, instance_id, TRUE))]
                  /\ pc' = [pc EXCEPT ![p] = "done"]
    /\ UNCHANGED <<objects, locks, inst, vols, vgs, op, code, nops, par, pre>>

\* ------------------------------------------- list_snapshots_for_all_instances
\* the objects list-all deletes: get_instance_details(stop=False) returned
\* None and delete_object did not raise
list_all_deletes(objs, failed) ==
    {i \in DOMAIN objs : /\ get_instance_details(i, <<"get_instance", i>> \notin failed).err # 0
                         /\ <<"delete_object", i>> \notin failed}

ListAll(p) ==
    /\ pc[p] = "list_all"
    /\ \E failed \in FailSets({<<c, i>> : c \in {"get_instance", "delete_object"},
                                          i \in DOMAIN objects}) :
          /\ nfail' = nfail + Cardinality(failed)
          /\ objects' = [i \in DOMAIN objects \ list_all_deletes(objects, failed) |-> objects[i]]
    /\ pc' = [pc EXCEPT ![p] = "done"]
    /\ UNCHANGED <<locks, inst, vols, vgs, op, loc, code, nops, par, pre>>

\* -------------------------------------------------------------- the cloud
\* the clone of a volume group completes
CloudCloneDone ==
    /\ \E g \in vgs :
          /\ g.state = "PROVISIONING"
          /\ vgs' = (vgs \ {g}) \cup {[g EXCEPT !.state = "AVAILABLE"]}
    /\ UNCHANGED <<objects, locks, inst, vols, pc, op, loc, code, nops, nfail, par, pre>>

\* a terminating instance is terminated: its boot volume is deleted with it
\* and its volumes are detached
CloudTerminated ==
    /\ \E i \in DOMAIN inst :
          /\ inst[i].state = "TERMINATING"
          /\ inst' = [inst EXCEPT ![i].state = "TERMINATED",
                         ![i].atts = [x \in DOMAIN @ |-> [@[x] EXCEPT !.lifecycle_state = "DETACHED"]]]
          /\ vols' = delete_volumes(vols, {inst[i].boot})
    /\ UNCHANGED <<objects, locks, vgs, pc, op, loc, code, nops, nfail, par, pre>>

\* a launched instance is running
CloudRunning ==
    /\ \E i \in DOMAIN inst :
          /\ inst[i].state = "PROVISIONING"
          /\ inst' = [inst EXCEPT ![i].state = "RUNNING"]
    /\ UNCHANGED <<objects, locks, vols, vgs, pc, op, loc, code, nops, nfail, par, pre>>

\* between two invocations an operator gives a running instance an
\* ephemeral public IP
AssignEphemeralIp ==
    /\ \A p \in Procs : Ended(p)
    /\ \E i \in DOMAIN inst :
          /\ inst[i].state = "RUNNING"
          /\ inst[i].public_ip = "NONE"
          /\ inst' = [inst EXCEPT ![i].public_ip = "EPHEMERAL"]
    /\ pre' = IF par THEN pre ELSE [pre EXCEPT !.inst = inst']
    /\ UNCHANGED <<objects, locks, vols, vgs, pc, op, loc, code, nops, nfail, par>>

\* ------------------------------------------------------------ specification
Step(p) ==
    \/ Start(p)
    \/ LockList(p) \/ LockPut(p) \/ Unlock(p)
    \/ CdLoad(p) \/ CdSave(p)
    \/ DelLoad(p) \/ DelInst(p) \/ DelVols(p) \/ DelTag(p) \/ DelSave(p)
    \/ DaLoad(p) \/ DaInst(p) \/ DaVols(p) \/ DaSave(p)
    \/ CrLoad(p) \/ CrCheck(p) \/ CrVg(p) \/ CrClone(p) \/ CrWait(p) \/ CrTag(p)
    \/ CrDelVg(p) \/ CrTagInst(p) \/ CrSave(p)
    \/ RbInst(p) \/ RbLoad(p) \/ RbTerm(p) \/ RbWaitTerm(p) \/ RbLaunch(p) \/ RbWaitRun(p)
    \/ RbAttach(p) \/ RbDelOld(p) \/ RbUntag(p) \/ RbSave(p)
    \/ RnLoad(p) \/ RnInst(p) \/ RnTagInst(p) \/ RnVols(p) \/ RnSave(p)
    \/ List(p) \/ ListAll(p)

Next ==
    \/ \E p \in Procs : Step(p)
    \/ CloudCloneDone \/ CloudTerminated \/ CloudRunning \/ AssignEphemeralIp

Spec == Init /\ [][Next]_vars

SpecConc == InitConc /\ [][Next]_vars

\* the script runs on once it is started (it only sleeps inside its polling
\* loops) and the cloud completes what it accepted: a clone leaves
\* PROVISIONING, a terminated instance reaches TERMINATED, a launched
\* instance reaches RUNNING
SpecFair ==
    /\ Init /\ [][Next]_vars
    /\ \A p \in Procs : WF_vars(~Ended(p) /\ Step(p))
    /\ WF_vars(CloudCloneDone) /\ WF_vars(CloudTerminated) /\ WF_vars(CloudRunning)

\* ================================================================ stop/start
\* OCI_instances_stop_start_tagged.py and
\* OCI_instances_stop_start_tagged_by_search.py: a run of the script (started
\* every hour by a scheduler) walks through the compute instances and stops
\* or starts those whose defined tag holds the current UTC hour.  Here inst
\* holds the instances of the tenancy with their defined tags, their region
\* and compartment, and the actions the cloud received for them.
MaxRuns == 1    \* runs of the stop/start script in one behaviour

tag_key_stop  == "automatic_shutdown"
tag_key_start == "automatic_startup"

Hours == {"09:00_UTC", "10:00_UTC"}

\* the hour the clock shows to run number no
current_utc_time(no) == IF no = 1 THEN "09:00_UTC" ELSE "10:00_UTC"

\* the region of the profile first, then the other subscribed region
regions == << "eu-frankfurt-1", "eu-amsterdam-1" >>

\* the root compartment, then the compartments list_compartments returns
compartments ==
    << [id |-> "root", lifecycle_state |-> "AVAILABLE"],
       [id |-> "cpt1", lifecycle_state |-> "ACTIVE"],
       [id |-> "cpt2", lifecycle_state |-> "DELETED"] >>

\* defined_tags["osc"] of an instance: a dictionary on some of the two keys
DefinedTags == UNION {[K -> Hours] : K \in SUBSET {tag_key_stop, tag_key_start}}

Instance(region, compartment_id, state, defined_tags) ==
    [state |-> state, defined_tags |-> defined_tags, region |-> region,
     compartment_id |-> compartment_id, actions |-> <<>>]

\* the tenancies: an instance in the root compartment of the region of the
\* profile and one in a compartment of the other region
Fleets ==
    {<< Instance(regions[1], "root", s1, t1), Instance(regions[2], "cpt1", s2, t2) >> :
        s1 \in {"RUNNING", "STOPPED", "TERMINATED"}, t1 \in DefinedTags,
        s2 \in {"RUNNING", "STOPPED", "TERMINATED"}, t2 \in DefinedTags}

Options == {"-a", "--confirm_stop", "--confirm_start"}

\* the options of a command line, before the profile
Argvs == UNION {[1..n -> Options] : n \in 0..3}

SchedOps == {[type |-> t, argv |-> a] : t \in {"tagged", "by_search"}, a \in Argvs}

\* a run of a stop/start script keeps the instances it has still to process
SchedLoc == [todo |-> <<>>, confirm_stop |-> FALSE, confirm_start |-> FALSE,
             current_utc_time |-> "", failed |-> FALSE, sent |-> <<>>]

InitSched ==
    /\ objects = <<>>
    /\ locks = {}
    /\ inst \in Fleets
    /\ vols = <<>>
    /\ vgs = {}
    /\ pc = [p \in Procs |-> "idle"]
    /\ op = [p \in Procs |-> NoOp]
    /\ loc = [p \in Procs |-> SchedLoc]
    /\ code = [p \in Procs |-> 0]
    /\ nops = 0
    /\ nfail = 0
    /\ par = FALSE
    /\ pre = [objects |-> <<>>, locks |-> {}, inst |-> inst, vols |-> <<>>, vgs |-> {}]

\* the command line as the script reads it: argparse takes the options in
\* any order; the by_search script reads sys.argv by position ("-a" only
\* first) and calls usage() for anything else
parse_args(type, argv) ==
    LET has(o) == o \in Range(argv)
        confirm(x) == argv[x] \in {"--confirm_stop", "--confirm_start"} IN
    [ok |-> \/ type = "tagged"
            \/ \A x \in DOMAIN argv : x = 1 \/ confirm(x),
     all_regions   |-> IF type = "tagged" THEN has("-a") ELSE Len(argv) > 0 /\ argv[1] = "-a",
     confirm_stop  |-> has("--confirm_stop"),
     confirm_start |-> has("--confirm_start")]

RECURSIVE Concat(_)
Concat(ss) == IF ss = <<>> THEN <<>> ELSE Head(ss) \o Concat(Tail(ss))

\* list_instances(compartment) in a region / the items of the search query
\* that are in the compartment
instances_in(region, compartment_id) ==
    SelectSeq([i \in DOMAIN inst |-> i],
              LAMBDA i : inst[i].region = region /\ inst[i].compartment_id = compartment_id)

\* the instances a run processes, in order: region by region; the tagged
\* script skips the compartments that are DELETED
process_order(type, all_regions) ==
    LET rs == IF all_regions THEN regions ELSE << regions[1] >> IN
    Concat([r \in DOMAIN rs |->
       Concat([c \in DOMAIN compartments |->
          IF type = "tagged" /\ compartments[c].lifecycle_state = "DELETED" THEN <<>>
          ELSE instances_in(rs[r], compartments[c].id)])])

\* the try that reads the two tags: a missing key makes both "none"
tag_values(defined_tags) ==
    IF tag_key_stop \in DOMAIN defined_tags /\ tag_key_start \in DOMAIN defined_tags
    THEN [stop |-> defined_tags[tag_key_stop], start |-> defined_tags[tag_key_start]]
    ELSE [stop |-> "none", start |-> "none"]

\* "is it time to start / to stop this instance ?"
action_due(lifecycle_state, tags, now) ==
    IF lifecycle_state = "STOPPED" /\ tags.start = now THEN "START"
    ELSE IF lifecycle_state = "RUNNING" /\ tags.stop = now THEN "SOFTSTOP"
    ELSE "NONE"

\* a script that sends the action whatever the confirmation options
action_sent_unconfirmed(action, confirm_stop, confirm_start) == action # "NONE"

\* the action is sent only with its confirmation option; otherwise the
\* script prints that the instance should be started or stopped
action_sent(action, confirm_stop, confirm_start) ==
    \/ action = "START" /\ confirm_start
    \/ action = "SOFTSTOP" /\ confirm_stop

\* the instance after the cloud accepted instance_action
instance_action(instance, action) ==
    [instance EXCEPT !.state = IF action = "START" THEN "STARTING" ELSE "STOPPING",
                     !.actions = Append(@, action)]

\* the scheduler starts a run: the arguments are parsed, the clock is read
SchedStart(p) ==
    /\ p = "p1"
    /\ Ended(p)
    /\ nops < MaxRuns
    /\ \E o \in SchedOps :
          LET args == parse_args(o.type, o.argv) IN
          /\ op' = [op EXCEPT ![p] = o]
          /\ IF args.ok
             THEN /\ pc' = [pc EXCEPT ![p] = "sched_run"]
                  /\ code' = [code EXCEPT ![p] = 0]
                  /\ loc' = [loc EXCEPT ![p] =
                               [todo |-> process_order(o.type, args.all_regions),
                                confirm_stop |-> args.confirm_stop,
                                confirm_start |-> args.confirm_start,
                                current_utc_time |-> current_utc_time(nops + 1),
                                failed |-> FALSE, sent |-> <<>>]]
             ELSE \* usage()
                  /\ pc' = [pc EXCEPT ![p] = "done"]
                  /\ code' = [code EXCEPT ![p] = 1]
                  /\ loc' = [loc EXCEPT ![p] = SchedLoc]
    /\ nops' = nops + 1
    /\ pre' = Snapshot
    /\ UNCHANGED <<objects, locks, inst, vols, vgs, nfail, par>>

\* the body of the loop for one instance (process_instance in the by_search
\* script, whose get_instance may raise: the instance is then ignored);
\* instance_action is not in a try
SchedInstance(p) ==
    /\ pc[p] = "sched_run"
    /\ loc[p].todo # <<>>
    /\ LET i == Head(loc[p].todo)
           action == action_due(inst[i].state, tag_values(inst[i].defined_tags),
                                loc[p].current_utc_time)
           send == action_sent(action, loc[p].confirm_stop, loc[p].confirm_start) IN
       \E outcome \in {"ok", "action_raises"} \cup
                      (IF op[p].type = "by_search" THEN {"get_raises"} ELSE {}) :
          /\ outcome = "action_raises" => send
          /\ IF outcome = "get_raises"
             THEN /\ inst' = inst
                  /\ loc' = [loc EXCEPT ![p].todo = Tail(@), ![p].failed = TRUE]
                  /\ UNCHANGED <<pc, code>>
             ELSE IF outcome = "action_raises"
             THEN /\ inst' = inst
                  /\ loc' = [loc EXCEPT ![p].failed = TRUE]
                  /\ pc' = [pc EXCEPT ![p] = "crashed"]
                  /\ code' = [code EXCEPT ![p] = 1]
             ELSE /\ inst' = IF send THEN [inst EXCEPT ![i] = instance_action(@, action)]
                             ELSE inst
                  /\ loc' = [loc EXCEPT ![p].todo = Tail(@),
                                         ![p].sent = IF send
                                                     THEN Append(@, [id |-> i, action |-> action])
                                                     ELSE @]
                  /\ UNCHANGED <<pc, code>>
    /\ UNCHANGED <<objects, locks, vols, vgs, op, nops, nfail, par, pre>>

\* "END SCRIPT" and exit (0)
SchedEnd(p) ==
    /\ pc[p] = "sched_run"
    /\ loc[p].todo = <<>>
    /\ pc' = [pc EXCEPT ![p] = "done"]
    /\ code' = [code EXCEPT ![p] = 0]
    /\ UNCHANGED <<objects, locks, inst, vols, vgs, op, loc, nops, nfail, par, pre>>

\* the cloud completes a stop or a start
CloudStopStart ==
    /\ \E i \in DOMAIN inst :
          /\ inst[i].state \in {"STOPPING", "STARTING"}
          /\ inst' = [inst EXCEPT ![i].state = IF @ = "STOPPING" THEN "STOPPED" ELSE "RUNNING"]
    /\ UNCHANGED <<objects, locks, vols, vgs, pc, op, loc, code, nops, nfail, par, pre>>

NextSched ==
    \/ \E p \in Procs : SchedStart(p) \/ SchedInstance(p) \/ SchedEnd(p)
    \/ CloudStopStart

SpecSched == InitSched /\ [][NextSched]_vars


\* ======================================================= snapshots without db
\* OCI_instance_snapshots_no_db.py: the snapshots of an instance are the
\* freeform tags snapshot_<name> of the instance and of the cloned volumes;
\* there is no bucket and no lock.  The invocations of two users overlap and
\* every API call is accepted unless the state of the cloud makes it raise;
\* consecutive calls of a function are one step.
NdOps ==
    {[type |-> t, ids |-> <<i>>, name |-> n, name2 |-> n, desc |-> ""] :
        t \in {"create", "rollback", "delete"}, i \in DOMAIN inst, n \in Names}

\* what a function of the script keeps in its local variables
NdLoc(no) ==
    [no |-> no, instance |-> <<>>, blkvol_attachments |-> <<>>, cloned_volume_ids |-> <<>>,
     bootvol_id |-> 0, blkvol_ids |-> {}, new_instance_id |-> 0, used |-> {}]

InitNoDb == InitCommon /\ par = TRUE /\ nfail = 0

NdStart(p) ==
    /\ Ended(p)
    /\ nops < MaxOps
    /\ \E o \in NdOps :
          /\ op' = [op EXCEPT ![p] = o]
          /\ pc' = [pc EXCEPT ![p] = "nd_" \o o.type]
    /\ loc' = [loc EXCEPT ![p] = NdLoc(nops + 1)]
    /\ code' = [code EXCEPT ![p] = 0]
    /\ nops' = nops + 1
    /\ UNCHANGED <<objects, locks, inst, vols, vgs, nfail, par, pre>>

\* exit (c), or the exception that ends the script when c is 1
NdExit(p, c) ==
    /\ pc' = [pc EXCEPT ![p] = IF c = 1 THEN "crashed" ELSE "done"]
    /\ code' = [code EXCEPT ![p] = c]

\* the items of the search query of stop_if_snapshot_name_used: the
\* instances with the tag; a terminated instance may still be indexed
tagged_instances(snapshot_name, indexed) ==
    {i \in DOMAIN inst : /\ inst[i].tags[snapshot_name] # 0
                         /\ inst[i].state = "TERMINATED" => i \in indexed}

\* the items of the search queries of get_bootvol_id and get_blkvol_ids
tagged_volumes(kind, snapshot_name) ==
    {v \in DOMAIN vols : vols[v].exists /\ vols[v].kind = kind /\ vols[v].tags[snapshot_name] # 0}

\* the checks of create_snapshot before the first volume group
NdCreateCheck(p) ==
    /\ pc[p] = "nd_create"
    /\ LET instance_id == op[p].ids[1]
           r == get_instance_details(instance_id, TRUE) IN
       \E indexed \in SUBSET {i \in DOMAIN inst : inst[i].state = "TERMINATED"} :
          LET c == IF r.err # 0 THEN r.err
                   ELSE IF r.data.tags[op[p].name] # 0 THEN 1
                   ELSE IF tagged_instances(op[p].name, indexed) # {} THEN 7
                   ELSE IF r.data.public_ip = "EPHEMERAL" THEN 6
                   ELSE 0 IN
          IF c # 0
          THEN /\ pc' = [pc EXCEPT ![p] = "done"]
               /\ code' = [code EXCEPT ![p] = c]
               /\ loc' = [loc EXCEPT ![p].used =
                             IF r.err # 0 THEN {}
                             ELSE {i \in DOMAIN inst : /\ inst[i].tags[op[p].name] # 0
                                                       /\ inst[i].state # "TERMINATED"}]
          ELSE /\ pc' = [pc EXCEPT ![p] = "nd_create_clone"]
               /\ code' = code
               /\ loc' = [loc EXCEPT ![p].instance = r.data,
                                     ![p].blkvol_attachments = r.data.atts]
    /\ UNCHANGED <<objects, locks, inst, vols, vgs, op, nops, nfail, par, pre>>

\* create_volume_group of the boot volume and of the volumes of all the
\* volume attachments, then the clone of the group
NdCreateClone(p) ==
    /\ pc[p] = "nd_create_clone"
    /\ LET instance_id == op[p].ids[1]
           src == volume_ids(<<instance_id>>, (instance_id :> loc[p].instance),
                             (instance_id :> loc[p].blkvol_attachments))
           new == [x \in DOMAIN src |->
                      [kind |-> vols[src[x]].kind, exists |-> TRUE,
                       display_name |-> vols[src[x]].display_name \o <<"cloned">>,
                       tags |-> NoTag, src |-> src[x]]] IN
       IF \E x \in DOMAIN src : ~vols[src[x]].exists
       THEN NdExit(p, 1) /\ UNCHANGED <<vols, vgs, loc>>
       ELSE /\ vols' = vols \o new
            /\ vgs' = vgs \cup {VolumeGroup(loc[p].no, "tempo_source", op[p].name, "AVAILABLE", src),
                                VolumeGroup(loc[p].no, "tempo_cloned", op[p].name, "PROVISIONING",
                                            [x \in DOMAIN src |-> Len(vols) + x])}
            /\ loc' = [loc EXCEPT ![p].cloned_volume_ids = [x \in DOMAIN src |-> Len(vols) + x]]
            /\ pc' = [pc EXCEPT ![p] = "nd_create_tag"]
            /\ code' = code
    /\ UNCHANGED <<objects, locks, inst, op, nops, nfail, par, pre>>

\* when the clone is no longer PROVISIONING: rename_and_tag_boot_volume /
\* rename_and_tag_block_volume of the clones, then delete_volume_group twice
NdCreateTag(p) ==
    /\ pc[p] = "nd_create_tag"
    /\ \A g \in vgs : g.owner = loc[p].no => g.state # "PROVISIONING"
    /\ LET V == Range(loc[p].cloned_volume_ids) IN
       IF \E v \in V : ~vols[v].exists
       THEN NdExit(p, 1) /\ UNCHANGED <<vols, vgs>>
       ELSE /\ vols' = [v \in DOMAIN vols |->
                          IF v \in V
                          THEN rename_and_tag_volume(vols, v, op[p].name, loc[p].no, "cloned")[v]
                          ELSE vols[v]]
            /\ vgs' = delete_volume_groups(vgs, loc[p].no, {"tempo_source", "tempo_cloned"})
            /\ pc' = [pc EXCEPT ![p] = "nd_create_taginst"]
            /\ code' = code
    /\ UNCHANGED <<objects, locks, inst, op, loc, nops, nfail, par, pre>>

\* ff_tags_inst[tag_key] = tag_value and update_instance with the tags read
\* by get_instance_details at the beginning
NdCreateTagInst(p) ==
    /\ pc[p] = "nd_create_taginst"
    /\ LET instance_id == op[p].ids[1] IN
       IF inst[instance_id].state \in {"TERMINATED", "TERMINATING"}
       THEN NdExit(p, 1) /\ inst' = inst
       ELSE /\ inst' = [inst EXCEPT ![instance_id].tags =
                           [loc[p].instance.tags EXCEPT ![op[p].name] = loc[p].no]]
            /\ NdExit(p, 0)
    /\ UNCHANGED <<objects, locks, vols, vgs, op, loc, nops, nfail, par, pre>>

\* the checks of rollback_snapshot (public_ip of the VNIC) and of
\* delete_snapshot, and the searches for the cloned volumes
NdFindSnapshot(p) ==
    /\ pc[p] \in {"nd_rollback", "nd_delete"}
    /\ LET r == get_instance_details(op[p].ids[1], TRUE)
           B == tagged_volumes("boot", op[p].name)
           c == IF r.err # 0 THEN r.err
                ELSE IF r.data.tags[op[p].name] = 0 THEN 3
                ELSE IF op[p].type = "rollback" /\ r.data.public_ip = "EPHEMERAL" THEN 6
                ELSE IF B = {} THEN 4
                ELSE IF Cardinality(B) > 1 THEN 5
                ELSE 0 IN
       IF c # 0
       THEN /\ pc' = [pc EXCEPT ![p] = "done"]
            /\ code' = [code EXCEPT ![p] = c]
            /\ loc' = loc
       ELSE /\ pc' = [pc EXCEPT ![p] = IF op[p].type = "rollback" THEN "nd_rollback_term"
                                       ELSE "nd_delete_vols"]
            /\ code' = code
            /\ loc' = [loc EXCEPT ![p].instance = r.data,
                                  ![p].blkvol_attachments = r.data.atts,
                                  ![p].bootvol_id = CHOOSE v \in B : TRUE,
                                  ![p].blkvol_ids = tagged_volumes("block", op[p].name)]
    /\ UNCHANGED <<objects, locks, inst, vols, vgs, op, nops, nfail, par, pre>>

\* delete_volume of the cloned block volumes and delete_boot_volume; the
\* call for a volume that is gone raises after some of the other calls
NdDeleteVolumes(p) ==
    /\ pc[p] = "nd_delete_vols"
    /\ LET V == loc[p].blkvol_ids \cup {loc[p].bootvol_id} IN
       IF \A v \in V : vols[v].exists
       THEN /\ vols' = delete_volumes(vols, V)
            /\ pc' = [pc EXCEPT ![p] = "nd_delete_tag"]
            /\ code' = code
       ELSE /\ \E D \in SUBSET {v \in loc[p].blkvol_ids : vols[v].exists} :
                  vols' = delete_volumes(vols, D)
            /\ NdExit(p, 1)
    /\ UNCHANGED <<objects, locks, inst, vgs, op, loc, nops, nfail, par, pre>>

\* del ff_tags[tag_key] and update_instance with the tags read at the beginning
NdDeleteTag(p) ==
    /\ pc[p] = "nd_delete_tag"
    /\ LET instance_id == op[p].ids[1] IN
       IF inst[instance_id].state \in {"TERMINATED", "TERMINATING"}
       THEN NdExit(p, 1) /\ inst' = inst
       ELSE /\ inst' = [inst EXCEPT ![instance_id].tags =
                           [loc[p].instance.tags EXCEPT ![op[p].name] = 0]]
            /\ NdExit(p, 0)
    /\ UNCHANGED <<objects, locks, vols, vgs, op, loc, nops, nfail, par, pre>>

\* terminate_instance(instance_id, preserve_boot_volume=False)
NdRollbackTerminate(p) ==
    /\ pc[p] = "nd_rollback_term"
    /\ inst' = [inst EXCEPT ![op[p].ids[1]].state =
                   IF @ = "TERMINATED" THEN @ ELSE "TERMINATING"]
    /\ pc' = [pc EXCEPT ![p] = "nd_rollback_launch"]
    /\ UNCHANGED <<objects, locks, vols, vgs, op, loc, code, nops, nfail, par, pre>>

\* when the instance is TERMINATED: rename_boot_volume of the cloned boot
\* volume and launch_instance with the tags of the instance but the tag of
\* the snapshot
NdRollbackLaunch(p) ==
    /\ pc[p] = "nd_rollback_launch"
    /\ inst[op[p].ids[1]].state = "TERMINATED"
    /\ LET old == loc[p].instance
           new_bootvol_id == loc[p].bootvol_id IN
       IF ~vols[new_bootvol_id].exists
       THEN NdExit(p, 1) /\ UNCHANGED <<inst, vols, loc>>
       ELSE /\ vols' = [vols EXCEPT ![new_bootvol_id].display_name =
                                       vols[old.boot].display_name]
            /\ inst' = Append(inst,
                  [state |-> "PROVISIONING", tags |-> [old.tags EXCEPT ![op[p].name] = 0],
                   public_ip |-> "NONE", ad |-> old.ad, boot |-> new_bootvol_id, atts |-> <<>>])
            /\ loc' = [loc EXCEPT ![p].new_instance_id = Len(inst) + 1]
            /\ pc' = [pc EXCEPT ![p] = "nd_rollback_vols"]
            /\ code' = code
    /\ UNCHANGED <<objects, locks, vgs, op, nops, nfail, par, pre>>

\* the volume attachment of the source volume of a cloned block volume:
\* ERROR 10 when the source of a volume cannot be read, ERROR 12 when the
\* source is gone and no attached volume has the same source, ERROR 11 when
\* the source has no attachment
source_attachment(blkvol_attachments, blkvol_id) ==
    LET source_blkvol_id == vols[blkvol_id].src
        no_source(v) == ~vols[v].exists \/ vols[v].src = 0
        RECURSIVE alternate(_)
        alternate(as) ==
            IF as = <<>> THEN [err |-> 12]
            ELSE IF no_source(Head(as).volume_id) THEN [err |-> 10]
            ELSE IF vols[Head(as).volume_id].src = source_blkvol_id
            THEN [err |-> 0, id |-> Head(as).volume_id]
            ELSE alternate(Tail(as))
        source == IF no_source(blkvol_id) THEN [err |-> 10]
                  ELSE IF vols[source_blkvol_id].exists THEN [err |-> 0, id |-> source_blkvol_id]
                  ELSE alternate(blkvol_attachments)
        A == {a \in Range(blkvol_attachments) : a.volume_id = source.id} IN
    IF source.err # 0 THEN [err |-> source.err]
    ELSE IF A = {} THEN [err |-> 11]
    ELSE [err |-> 0, attachment |-> CHOOSE a \in A : TRUE, name |-> vols[source.id].display_name]

\* when the new instance is RUNNING: the cloned block volumes are attached
\* and renamed, the previously attached volumes are deleted, the tags of the
\* clones are removed and the reserved public IP is assigned
NdRollbackVolumes(p) ==
    /\ pc[p] = "nd_rollback_vols"
    /\ inst[loc[p].new_instance_id].state = "RUNNING"
    /\ LET new_blkvol_ids == loc[p].blkvol_ids
           new_instance_id == loc[p].new_instance_id
           old == old_volume_ids(loc[p].blkvol_attachments)
           V == new_blkvol_ids \cup {loc[p].bootvol_id}
           sa(v) == source_attachment(loc[p].blkvol_attachments, v)
           errs == {sa(v).err : v \in new_blkvol_ids} \ {0}
           order == CHOOSE f \in [1..Cardinality(new_blkvol_ids) -> new_blkvol_ids] :
                       Range(f) = new_blkvol_ids /\ \A x, y \in DOMAIN f : x < y => f[x] < f[y] IN
       IF errs # {}
       THEN /\ pc' = [pc EXCEPT ![p] = "done"]
            /\ code' = [code EXCEPT ![p] = CHOOSE c \in errs : TRUE]
            /\ UNCHANGED <<inst, vols>>
       ELSE IF \/ \E v \in old : ~vols[v].exists
               \/ \E v \in V : ~vols[v].exists \/ vols[v].tags[op[p].name] = 0
       THEN NdExit(p, 1) /\ UNCHANGED <<inst, vols>>
       ELSE /\ inst' = [inst EXCEPT
                          ![new_instance_id].atts =
                              [x \in DOMAIN order |->
                                 [sa(order[x]).attachment EXCEPT !.volume_id = order[x],
                                                                 !.lifecycle_state = "ATTACHED"]],
                          ![new_instance_id].public_ip = loc[p].instance.public_ip]
            /\ vols' = [v \in DOMAIN vols |->
                          IF v \in old THEN [vols[v] EXCEPT !.exists = FALSE]
                          ELSE IF v \in new_blkvol_ids
                          THEN [vols[v] EXCEPT !.display_name = sa(v).name,
                                               !.tags[op[p].name] = 0]
                          ELSE IF v = loc[p].bootvol_id
                          THEN [vols[v] EXCEPT !.tags[op[p].name] = 0]
                          ELSE vols[v]]
            /\ NdExit(p, 0)
    /\ UNCHANGED <<objects, locks, vgs, op, loc, nops, nfail, par, pre>>

NextNoDb ==
    \/ \E p \in Procs :
          \/ NdStart(p)
          \/ NdCreateCheck(p) \/ NdCreateClone(p) \/ NdCreateTag(p) \/ NdCreateTagInst(p)
          \/ NdFindSnapshot(p) \/ NdDeleteVolumes(p) \/ NdDeleteTag(p)
          \/ NdRollbackTerminate(p) \/ NdRollbackLaunch(p) \/ NdRollbackVolumes(p)
    \/ CloudCloneDone \/ CloudTerminated \/ CloudRunning

SpecNoDb == InitNoDb /\ [][NextNoDb]_vars


\* the bucket, the instances and the volumes once delete_snapshot(instance_id,
\* snapshot_name) has run to its end with no call that raises; ERROR 03
\* leaves them as they are
delete_snapshot(st, instance_id, snapshot_name) ==
    LET snap_dict == load_snapshots_dict(st.objects, instance_id, TRUE)
        x == snap_index(snap_dict, snapshot_name) IN
    IF x = 0 THEN st
    ELSE [objects |-> save_snapshots_dict(st.objects, remove_snap(snap_dict, snapshot_name),
                                          instance_id, TRUE),
          inst |-> [st.inst EXCEPT ![instance_id].tags[snapshot_name] = 0],
          vols |-> delete_volumes(st.vols, cloned_ids(snap_dict.snapshots[x]))]

\* delete_snapshot for each of the snapshot names, one invocation after the other
RECURSIVE delete_one_by_one(_, _, _)
delete_one_by_one(st, instance_id, snapshot_names) ==
    IF snapshot_names = <<>> THEN st
    ELSE delete_one_by_one(delete_snapshot(st, instance_id, Head(snapshot_names)),
                           instance_id, Tail(snapshot_names))

\* ================================================================== claims
\* the operations that take the lock
Mutating == {"create", "create_multi", "rollback", "delete", "delete_all",
             "rename", "change_desc"}

\* process p is between the return of its lock() call and its unlock() call
\* for instance i
Holds(p, i) ==
    /\ op[p].type \in Mutating
    /\ i \in Range(op[p].ids)
    /\ ~Ended(p)
    /\ pc[p] \notin {"lock_list", "lock_put"}
    /\ ~(pc[p] = "unlock" /\ loc[p].ucode = 15)

\* C1: mutual exclusion per instance: at most one process at a time is
\* between the return of lock() and its unlock() for an instance id
MutualExclusion ==
    \A i \in DOMAIN inst : Cardinality({p \in Procs : Holds(p, i)}) <= 1

\* C2: lock(ids) fails atomically: when lock() ends the process with an
\* error (exit 14: a lock is present, exit 15: a put failed) the lock objects
\* in the bucket are those that were there before the call
LockFailsAtomically ==
    \A p \in Procs :
       pc[p] = "done" /\ code[p] \in {14, 15} => locks = pre.locks

\* the record stored for instance i when the running invocation started
StoredBefore(i) == load_snapshots_dict(pre.objects, i, TRUE)

\* the positions of create after its checks, where it calls the cloud
CreateBody == {"cr_vg", "cr_clone", "cr_wait", "cr_tag", "cr_delvg", "cr_taginst", "cr_save"}

\* the positions of rollback from terminate_instance on
RollbackBody == {"rb_term", "rb_wait_term", "rb_launch", "rb_wait_run", "rb_attach",
                 "rb_delold", "rb_untag", "rb_save"}

\* nothing but the lock objects differs from the state at the start
SameButLocks ==
    /\ objects = pre.objects
    /\ inst = pre.inst
    /\ vols = pre.vols
    /\ vgs = pre.vgs

\* C3: create and create-multi reject a snapshot name that is in the stored
\* record of a target instance before any mutating call: the process does
\* not get past the checks, and when it has exited with code 1 the bucket
\* (records and lock objects) and the cloud are as before the invocation
CreateRejectsUsedName ==
    \A p \in Procs :
       op[p].type \in {"create", "create_multi"} =>
          /\ pc[p] \in CreateBody =>
                ~name_used([i \in Range(op[p].ids) |-> StoredBefore(i)], op[p].ids, op[p].name)
          /\ pc[p] = "done" /\ code[p] = 1 => SameButLocks /\ locks = pre.locks

StoreRoundTrip ==
    \A p \in Procs : \A s \in Range(loc[p].saved) :
       s.dict.instance_id = s.instance_id =>
          load_snapshots_dict(objects, s.instance_id, TRUE) = s.dict

Quiescent == \A p \in Procs : Ended(p)

\* C8: record and tags stay in sync: after operations that ran one at a time
\* with no failed API call, for every stored record <i>.json and every
\* snapshot s in it, instance i carries the tag snapshot_<s.name> and every
\* cloned volume s names exists and carries that tag
RecordAndTagsInSync ==
    Quiescent /\ nfail = 0 =>
       \A i \in DOMAIN objects :
          \A s \in Range(load_snapshots_dict(objects, i, TRUE).snapshots) :
             /\ inst[i].tags[s.name] # 0
             /\ \A v \in cloned_ids(s) : vols[v].exists /\ vols[v].tags[s.name] # 0

\* C8 witness: with no failed call, a rollback has completed and the record
\* moved to the new instance still holds a snapshot
RollbackKeptSnapshots ==
    \E p \in Procs :
       /\ Quiescent /\ nfail = 0
       /\ op[p].type = "rollback" /\ pc[p] = "done" /\ code[p] = 0
       /\ loc[p].new_id \in DOMAIN objects
       /\ Len(load_snapshots_dict(objects, loc[p].new_id, TRUE).snapshots) > 0

\* C9: the instance_id field of a record is its document key: for every
\* object <i>.json in the bucket, once no invocation is running, the
\* instance_id inside the document is i
RecordKeyIsInstanceId ==
    Quiescent =>
       \A i \in DOMAIN objects : load_snapshots_dict(objects, i, TRUE).instance_id = i

\* the kinds of the temporary volume groups of the invocation of p that exist
OwnGroups(p) == {g.kind : g \in {h \in vgs : h.owner = loc[p].no}}

\* the cloned volumes recorded for instance i in the entry named as the
\* invocation of p names its snapshot
RecordedClones(p, i) ==
    UNION {cloned_ids(s) :
             s \in {t \in Range(load_snapshots_dict(objects, i, TRUE).snapshots) :
                       t.name = op[p].name}}

\* a create has ended with exit code 0
CreateDone(p) ==
    op[p].type \in {"create", "create_multi"} /\ pc[p] = "done" /\ code[p] = 0

RollbackDone(p) ==
    op[p].type = "rollback" /\ pc[p] = "done" /\ code[p] = 0

\* the entry of the snapshot the rollback of p names, in the record stored
\* for the old instance when the invocation started
RolledBackEntry(p) ==
    LET before == StoredBefore(op[p].ids[1]) IN
    before.snapshots[snap_index(before, op[p].name)]

\* C11: rollback reassociates the record: when rollback(X, n) has completed,
\* the bucket holds no object <X>.json, the snapshots of X other than n are
\* stored unchanged and in their order in <Y>.json for the new instance Y (no
\* <Y>.json when n was the only snapshot), and the entry n is in no record
RollbackReassociates ==
    \A p \in Procs :
       RollbackDone(p) =>
          LET X == op[p].ids[1]
              Y == loc[p].new_id
              rest == remove_snap(StoredBefore(X), op[p].name).snapshots IN
          /\ snap_index(StoredBefore(X), op[p].name) # 0
          /\ X \notin DOMAIN objects
          /\ IF rest = <<>> THEN Y \notin DOMAIN objects
             ELSE /\ Y \in DOMAIN objects
                  /\ load_snapshots_dict(objects, Y, TRUE).snapshots = rest
          /\ \A i \in DOMAIN objects :
                RolledBackEntry(p) \notin Range(load_snapshots_dict(objects, i, TRUE).snapshots)

\* the operations that only list
Listing == {"list", "list_all"}

\* C12: list and list-all are read-only: whatever the outcome, an invocation
\* of --list or --list-all creates, overwrites or deletes no object of the
\* bucket (record or lock object) and modifies no cloud resource
ListIsReadOnly ==
    \A p \in Procs :
       op[p].type \in Listing => SameButLocks /\ locks = pre.locks

\* C13: fatal errors abort before any mutation: when an operation has ended
\* with a non-zero exit code it has issued no mutating cloud call (volume
\* group, volume, instance, record) other than creating its lock objects:
\* records, instances, volumes and volume groups are as at its start
FatalBeforeMutation ==
    \A p \in Procs :
       op[p].type \in Mutating /\ pc[p] = "done" /\ code[p] # 0 => SameButLocks

\* the positions of rollback, rename, delete and delete-all at their
\* cleanup calls: deletion of the old volumes, removal of tags, renaming
CleanupSteps == {"rb_attach", "rb_delold", "rb_untag", "rn_vols", "del_vols", "del_tag", "da_vols"}

\* C14: failures of cleanup steps are swallowed: in rollback, rename, delete
\* and delete-all a tag-removal, volume-rename or old-volume-deletion call
\* that fails does not stop the operation: the script goes on to its next
\* step (and from there to the record update, the unlock and exit 0)
CleanupSwallowed ==
    [][\A p \in Procs : pc[p] \in CleanupSteps => pc'[p] # "crashed"]_vars

\* the lock of a target instance of p was in the bucket when p started
LockWasPresent(p) == Range(op[p].ids) \cap pre.locks # {}

\* p has put fewer lock objects than it has target instances
LockIncomplete(p) == Len(loc[p].locked) < Len(op[p].ids)

\* the states in which get_instance_details stops the script
Gone == {"TERMINATED", "TERMINATING"}

StaleLockPermanent ==
    /\ pre.locks \subseteq locks
    /\ \A p \in Procs :
          op[p].type \in Mutating /\ LockWasPresent(p) =>
             /\ SameButLocks
             /\ pc[p] = "done" => code[p] = 14

\* ---------------------------------------------------------------- stop/start
SchedRun(p) == op[p].type \in {"tagged", "by_search"} /\ parse_args(op[p].type, op[p].argv).ok
Given(p, option) == option \in Range(op[p].argv)
Sent(p, i, action) == \E x \in DOMAIN loc[p].sent : loc[p].sent[x] = [id |-> i, action |-> action]
Processed(p) == Range(process_order(op[p].type, parse_args(op[p].type, op[p].argv).all_regions))
\* the instance was due to be stopped (started) when the run began: its
\* state and the value of the tag key, whatever the other key
DueStop(p, i) ==
    /\ pre.inst[i].state = "RUNNING"
    /\ tag_key_stop \in DOMAIN pre.inst[i].defined_tags
    /\ pre.inst[i].defined_tags[tag_key_stop] = loc[p].current_utc_time
DueStart(p, i) ==
    /\ pre.inst[i].state = "STOPPED"
    /\ tag_key_start \in DOMAIN pre.inst[i].defined_tags
    /\ pre.inst[i].defined_tags[tag_key_start] = loc[p].current_utc_time

\* C17: a run of a stop/start script without --confirm_stop sends no
\* SOFTSTOP and a run without --confirm_start sends no START, whatever the
\* instances, compartments and regions it goes through; a run sends at most
\* one action to an instance, and the cloud receives what the run sent and
\* nothing else.
DryRunSendsNothing ==
    /\ \A p \in Procs :
          SchedRun(p) =>
             /\ \A i \in DOMAIN inst :
                   /\ ~Given(p, "--confirm_stop") => ~Sent(p, i, "SOFTSTOP")
                   /\ ~Given(p, "--confirm_start") => ~Sent(p, i, "START")
             /\ \A x \in DOMAIN loc[p].sent : \A y \in DOMAIN loc[p].sent :
                   loc[p].sent[x].id = loc[p].sent[y].id => x = y
    /\ \A p \in Procs : \A i \in DOMAIN inst :
          pc[p] # "idle" =>
             LET sent == SelectSeq(loc[p].sent, LAMBDA e : e.id = i) IN
             inst[i].actions = pre.inst[i].actions \o [x \in DOMAIN sent |-> sent[x].action]

\* C17 witness: a run without --confirm_stop has ended after it found a
\* running instance whose two tags are set and whose stop hour is now, and
\* the instance received no action.
DryRunFoundInstanceToStop ==
    \E p \in Procs : \E i \in DOMAIN inst :
       /\ SchedRun(p) /\ pc[p] = "done" /\ code[p] = 0
       /\ ~Given(p, "--confirm_stop")
       /\ i \in Processed(p)
       /\ ~loc[p].failed
       /\ action_due(pre.inst[i].state, tag_values(pre.inst[i].defined_tags),
                     loc[p].current_utc_time) = "SOFTSTOP"
       /\ inst[i].actions = <<>>
       /\ inst[i].state = "RUNNING"

\* C18: after a run with --confirm_stop and --confirm_start, every running
\* instance it went through whose automatic_shutdown tag is the current hour
\* was sent SOFTSTOP, every stopped one whose automatic_startup tag is the
\* current hour was sent START, and no other instance was sent an action;
\* this for an instance that carries only one of the two tag keys too.
TaggedInstancesGetTheirAction ==
    \A p \in Procs :
       /\ SchedRun(p) /\ pc[p] = "done" /\ code[p] = 0
       /\ Given(p, "--confirm_stop") /\ Given(p, "--confirm_start")
       => \A i \in DOMAIN inst :
             /\ Sent(p, i, "SOFTSTOP") <=> i \in Processed(p) /\ DueStop(p, i)
             /\ Sent(p, i, "START") <=> i \in Processed(p) /\ DueStart(p, i)

\* ------------------------------------------------------- snapshots without db
Carriers(snapshot_name) ==
    {i \in DOMAIN inst : inst[i].tags[snapshot_name] # 0 /\ inst[i].state # "TERMINATED"}

\* C19: with the script that keeps the snapshots in tags only, whatever the
\* create, delete and rollback invocations and however they overlap, at most
\* one instance that is not terminated carries the tag of a snapshot name;
\* a create whose name was in use on its instance or on another one when it
\* made its checks has exited with code 1 or 7 and has created no volume
\* group.
SnapshotNameOnOneInstance ==
    /\ \A n \in Names : Cardinality(Carriers(n)) <= 1
    /\ \A p \in Procs :
          op[p].type = "create" /\ loc[p].used # {} =>
             /\ pc[p] = "done"
             /\ code[p] = IF op[p].ids[1] \in loc[p].used THEN 1 ELSE 7
             /\ \A g \in vgs : g.owner # loc[p].no

\* ------------------------------------------------------------ writes and lock
\* the object <i>.json is put, replaced or deleted by the step
Written(i) ==
    \/ (i \in DOMAIN objects) # (i \in DOMAIN objects')
    \/ i \in DOMAIN objects /\ i \in DOMAIN objects' /\ objects[i] # objects'[i]
\* the process put lock.<i> in this invocation and has not called unlock
HoldsLock(p, i) == ~Ended(p) /\ pc[p] # "unlock" /\ i \in Range(loc[p].locked) /\ i \in locks

\* C20: every put or delete of an object <i>.json of the bucket is made by
\* a process that put lock.<i> earlier in the same invocation and has not
\* yet deleted it.
RecordWritesUnderLock ==
    [][\A i \in DOMAIN objects \cup DOMAIN objects' :
          Written(i) => \E p \in Procs : HoldsLock(p, i) /\ <<pc[p], loc[p]>> # <<pc'[p], loc'[p]>>]_vars

\* ------------------------------------------------------------------- create
\* the record stored now for instance i
Stored(i) == load_snapshots_dict(objects, i, TRUE)

\* C21: create appends and preserves: when create(X, n, d) has ended with
\* exit code 0, the stored record of X is the record stored before the call
\* with one entry of name n and description d appended: every entry stored
\* before is still stored, unchanged and at the same position, also when the
\* read of the record failed during the call.
CreateAppends ==
    \A p \in Procs :
       op[p].type = "create" /\ pc[p] = "done" /\ code[p] = 0 =>
          LET X == op[p].ids[1]
              before == StoredBefore(X).snapshots
              after == Stored(X).snapshots IN
          /\ Len(after) = Len(before) + 1
          /\ SubSeq(after, 1, Len(before)) = before
          /\ after[Len(after)].name = op[p].name
          /\ after[Len(after)].description = op[p].desc

\* C22: list-all deletes the object <i>.json only of an instance that is
\* TERMINATING or TERMINATED (every instance of a record exists here): the
\* record of an instance in another state is still stored when list-all has
\* ended, also when the get_instance call for it failed.
ListAllDeletesOnlyTerminated ==
    \A p \in Procs :
       op[p].type = "list_all" /\ pc[p] = "done" =>
          \A i \in DOMAIN pre.objects :
             i \notin DOMAIN objects => pre.inst[i].state \in {"TERMINATING", "TERMINATED"}

\* ------------------------------------------------------------------- delete
\* the volumes that existed when the invocation started and are gone
Deleted == {v \in DOMAIN pre.vols : pre.vols[v].exists /\ ~vols[v].exists}

\* C23: delete removes exactly the named snapshot: when delete(X, n) has
\* completed, the record of X has no entry n and its other entries are those
\* stored before, in their order; X no longer carries the tag of n and keeps
\* its other tags; only cloned volumes of n were deleted.  When n is not in
\* the record the process exits with code 3, the lock is released and
\* nothing has changed.
DeleteRemovesExactly ==
    \A p \in Procs :
       op[p].type = "delete" /\ pc[p] = "done" =>
          LET X == op[p].ids[1]
              n == op[p].name
              before == StoredBefore(X) IN
          /\ code[p] = 0 =>
                /\ snap_index(before, n) # 0
                /\ Stored(X).snapshots = SelectSeq(before.snapshots, LAMBDA s : s.name # n)
                /\ inst[X].tags = [pre.inst[X].tags EXCEPT ![n] = 0]
                /\ Deleted \subseteq cloned_ids(before.snapshots[snap_index(before, n)])
          /\ snap_index(before, n) = 0 /\ code[p] \notin {14, 15, 8, 9} =>
                code[p] = 3 /\ X \notin locks /\ SameButLocks

\* C24: delete-all is equivalent to deleting every snapshot one by one: when
\* delete-all(X) has ended with exit code 0, the bucket, the instances with
\* their tags and the volumes are those that delete(X, s.name) for each
\* snapshot s of the record, in order, leaves, and no object <X>.json remains.
DeleteAllIsDeleteEach ==
    \A p \in Procs :
       op[p].type = "delete_all" /\ pc[p] = "done" /\ code[p] = 0 =>
          LET X == op[p].ids[1]
              before == StoredBefore(X).snapshots
              each == delete_one_by_one([objects |-> pre.objects, inst |-> pre.inst,
                                         vols |-> pre.vols], X,
                                        [x \in DOMAIN before |-> before[x].name]) IN
          /\ objects = each.objects
          /\ inst = each.inst
          /\ vols = each.vols
          /\ X \notin DOMAIN objects

\* ------------------------------------------------------------------- rename
\* the entry named n of a record (the record has one)
Entry(dict, n) == dict.snapshots[snap_index(dict, n)]

\* C25: rename moves the name everywhere or changes nothing: when
\* rename(X, old, new) has completed, the record of X has an entry new with
\* the description, date_time and cloned volumes of the former entry old and
\* no entry old, and X and the cloned volumes carry the tag of new with the
\* former value and no tag of old; after exit code 1 or 3 nothing has
\* changed and the lock is released; and a rename never ends with the tag
\* of old removed from a cloned volume while the stored record names old.
RenameMovesName ==
    \A p \in Procs :
       op[p].type = "rename" /\ pc[p] \in {"done", "crashed"} =>
          LET X == op[p].ids[1]
              old == op[p].name
              new == op[p].name2
              before == StoredBefore(X) IN
          /\ pc[p] = "done" /\ code[p] = 0 =>
                /\ snap_index(before, old) # 0
                /\ snap_index(Stored(X), old) = 0
                /\ snap_index(Stored(X), new) # 0
                /\ Entry(Stored(X), new) = [Entry(before, old) EXCEPT !.name = new]
                /\ inst[X].tags[old] = 0
                /\ pre.inst[X].tags[old] # 0 => inst[X].tags[new] = pre.inst[X].tags[old]
                /\ \A v \in cloned_ids(Entry(before, old)) :
                      vols[v].tags[old] = 0 /\ vols[v].tags[new] = pre.vols[v].tags[old]
          /\ pc[p] = "done" /\ code[p] \in {1, 3} => SameButLocks /\ X \notin locks
          /\ snap_index(Stored(X), old) # 0 =>
                \A v \in cloned_ids(Entry(Stored(X), old)) :
                   pre.vols[v].tags[old] # 0 => vols[v].tags[old] # 0

\* the temporary cloned volume groups the cloud is still copying
Provisioning == {g \in vgs : g.kind = "tempo_cloned" /\ g.state = "PROVISIONING"}

\* the record of instance i is the same before and after the step
RecordKept(i) ==
    /\ i \in DOMAIN objects' <=> i \in DOMAIN objects
    /\ i \in DOMAIN objects => objects'[i] = objects[i]

\* C26: while the cloned volume group of a create is PROVISIONING no step
\* renames or tags one of its volumes, deletes a temporary volume group of
\* that create, and no step of that create writes a record; a step that
\* launches an instance is taken by a rollback whose old instance is
\* TERMINATED, and a step that attaches a volume to an instance finds that
\* instance RUNNING
WaitsBeforeNextStep ==
    [][/\ \A g \in Provisioning :
             /\ \A v \in Range(g.volume_ids) : vols'[v] = vols[v]
             /\ \A h \in vgs : h.owner = g.owner =>
                   \E h2 \in vgs' : h2.owner = h.owner /\ h2.kind = h.kind
             /\ \A p \in Procs :
                   loc[p].cvg = g.owner /\ <<pc'[p], loc'[p]>> # <<pc[p], loc[p]>> =>
                      \A i \in Range(op[p].ids) : RecordKept(i)
       /\ Len(inst') > Len(inst) =>
             \E p \in Procs : /\ op[p].type = "rollback" /\ ~Ended(p)
                              /\ loc'[p].new_id = Len(inst')
                              /\ inst[op[p].ids[1]].state = "TERMINATED"
       /\ \A i \in DOMAIN inst :
             (\E a \in Range(inst'[i].atts) :
                 a.lifecycle_state = "ATTACHED" /\ a \notin Range(inst[i].atts))
             => inst[i].state = "RUNNING"]_vars

\* C26 witness: a snapshot was created and a rollback to it has ended with
\* the cloned block volume attached to the new instance
RollbackAttachedClones ==
    \E p \in Procs :
       /\ op[p].type = "rollback" /\ pc[p] = "done" /\ code[p] = 0
       /\ loc[p].new_id # 0
       /\ inst[loc[p].new_id].atts # <<>>
       /\ \E i \in DOMAIN objects : Stored(i).snapshots # <<>>

\* process p runs a create or a rollback and holds the locks it put
Polling(p) ==
    /\ op[p].type \in {"create", "create_multi", "rollback"}
    /\ \A i \in Range(op[p].ids) : HoldsLock(p, i)

\* process p has finished and none of its locks is in the bucket
Released(p) == pc[p] = "done" /\ \A i \in Range(op[p].ids) : i \notin locks

\* C27: when the cloud completes every request it accepted, a create or a
\* rollback that holds its locks eventually finishes with its locks released
PollingTerminates == \A p \in Procs : Polling(p) ~> Released(p)

\* the exit codes of the error exits a mutating operation makes after lock()
\* has returned, and of its normal end
HandledExits == {0, 1, 3, 6, 7, 8, 9, 10, 11, 16, 17, 18, 19}

\* C28: when a mutating operation that put locks ends by running to its end
\* or by one of its own error exits, no lock object of an instance id it
\* locked is left in the bucket
HandledExitReleases ==
    \A p \in Procs :
       (/\ op[p].type \in Mutating
        /\ pc[p] = "done"
        /\ code[p] \in HandledExits
        /\ loc[p].locked # <<>>)
       => \A i \in Range(loc[p].locked) : i \notin locks

\* the stored record of instance i has an entry named n
HasEntry(i, n) == snap_index(Stored(i), n) # 0

\* C29: when a create-multi whose snapshot name was in none of the records
\* ends with exit code 0 or with an error exit, either the record of every
\* instance has an entry with that name, all with the same date_time, or the
\* record of no instance has one
CreateMultiAllOrNothing ==
    \A p \in Procs :
       (/\ op[p].type = "create_multi"
        /\ pc[p] = "done"
        /\ \A i \in Range(op[p].ids) : snap_index(StoredBefore(i), op[p].name) = 0)
       => LET n == op[p].name
              I == Range(op[p].ids) IN
          \/ \A i \in I : ~HasEntry(i, n)
          \/ /\ \A i \in I : HasEntry(i, n)
             /\ \A i, j \in I : Entry(Stored(i), n).date_time = Entry(Stored(j), n).date_time

\* the cloned volumes of the snapshots recorded when the invocation started
ClonesBefore ==
    UNION {UNION {cloned_ids(StoredBefore(i).snapshots[x]) :
                     x \in DOMAIN StoredBefore(i).snapshots} : i \in DOMAIN pre.objects}

\* C30: a block volume that a rollback of instance X has deleted had an
\* ATTACHED attachment to X when the rollback started and was not a cloned
\* volume of a recorded snapshot
RollbackDeletesOnlyAttached ==
    \A p \in Procs :
       (/\ op[p].type = "rollback"
        /\ pc[p] # "idle"
        /\ pre.inst[op[p].ids[1]].state \notin {"TERMINATING", "TERMINATED"})
       => \A v \in Deleted :
             pre.vols[v].kind = "block" =>
                /\ \E a \in Range(pre.inst[op[p].ids[1]].atts) :
                      a.volume_id = v /\ a.lifecycle_state = "ATTACHED"
                /\ v \notin ClonesBefore

====
